---- MODULE Spec2Model ----
(***************************************************************************)
(* Model of viviphi's semantic animation engine:                           *)
(*   - SemanticInjector (src/viviphi/semantic_injector.py): edge parsing   *)
(*     and the wavefront animation order;                                  *)
(*   - SVGAnimator (src/viviphi/animator.py): direction reconciliation,    *)
(*     marker mirroring and timing of the element tree.                    *)
(***************************************************************************)
EXTENDS Integers, Sequences, FiniteSets, TLC

VARIABLES
    text,            \* SemanticInjector.mermaid_definition, a sequence of characters
    edges,           \* the edge list handed to _calculate_animation_order
    pc,              \* position of the extractor: "parse", "seed", "visit", "rest", "done"
    queue,           \* deque of nodes still to visit
    visited_nodes,   \* set of nodes already expanded
    ordered_edges,   \* per edge index, the order assigned (None while unassigned)
    current_order,   \* next order value to hand out
    run,             \* how many times the extractor has been constructed on this text
    prev_orders,     \* the orders returned by the previous construction (None before)
    root,            \* SVGAnimator.root, the element tree
    reversed_markers,\* SVGAnimator._reversed_markers, the ids of the mirrored markers
    calls,           \* number of process / process_with_theme calls made on the tree
    history          \* the tree as it was handed to each of these calls

vars == <<text, edges, pc, queue, visited_nodes, ordered_edges, current_order,
          run, prev_orders, root, reversed_markers, calls, history>>

\* The state of the SemanticInjector and the state of the SVGAnimator.
injector_vars == <<text, edges, pc, queue, visited_nodes, ordered_edges, current_order,
                   run, prev_orders>>

animator_vars == <<root, reversed_markers, calls, history>>

\* No SVGAnimator has been constructed.
NoAnimator ==
    /\ root = <<>>
    /\ reversed_markers = {}
    /\ calls = 0
    /\ history = <<>>

(***************************************************************************)
(* Bounds of the model.                                                    *)
(***************************************************************************)
MaxEdges == 4

None == -1

\* Node identifiers are words: sequences of characters.
NodeNames == <<"A", "B", "C", "D", "E", "F", "G", "H", "I", "J", "K", "L">>
Node(k) == <<NodeNames[k]>>

(***************************************************************************)
(* _calculate_animation_order                                              *)
(***************************************************************************)
\* An edge before ordering: EdgeSemantics without its order field.
EdgeSemantics(s, t, dir, ty) ==
    [source |-> s, target |-> t, direction |-> dir, edge_type |-> ty]

all_nodes(es) == {es[i].source : i \in DOMAIN es} \cup {es[i].target : i \in DOMAIN es}

\* edge_graph[n]: indices of the edges leaving n (kept in declaration order).
edge_graph(es, n) == {i \in DOMAIN es : es[i].source = n}

\* edge_targets[n]: indices of the edges entering n.
edge_targets(es, n) == {i \in DOMAIN es : es[i].target = n}

Min(S) == CHOOSE x \in S : \A y \in S : x <= y

\* Mutation of StartSet: the traversal is seeded with every node.
StartSetEveryNode(es) == all_nodes(es)

\* Mutation of StartSet: no fallback when every node has an incoming edge.
StartSetWithoutFallback(es) == {n \in all_nodes(es) : edge_targets(es, n) = {}}

\* The set the traversal is seeded with: zero-incoming nodes, else the nodes
\* of minimum incoming count.
StartSet(es) ==
    LET zero == {n \in all_nodes(es) : edge_targets(es, n) = {}}
        min_incoming == Min({Cardinality(edge_targets(es, n)) : n \in all_nodes(es)})
    IN  IF zero # {} THEN zero
        ELSE {n \in all_nodes(es) : Cardinality(edge_targets(es, n)) = min_incoming}

\* Every sequence that lists the members of S exactly once: the orders in
\* which a Python set of strings can be iterated.
IterationOrders(S) ==
    {q \in [1..Cardinality(S) -> S] : \A i, j \in DOMAIN q : q[i] = q[j] => i = j}

InQueue(q, n) == \E i \in DOMAIN q : q[i] = n

\* The inner for loop of one visit: idxs are the outgoing edge indices still
\* to look at (ascending), st = [ord, cur, q] the orders, counter and queue.
\* Mutation of AssignOutgoing: the outgoing edges are taken last declared
\* first.
RECURSIVE AssignOutgoingLastFirst(_, _, _, _)
AssignOutgoingLastFirst(es, visited, idxs, st) ==
    IF idxs = {} THEN st
    ELSE
        LET edge_idx == CHOOSE x \in idxs : \A y \in idxs : x >= y
            rest == idxs \ {edge_idx}
        IN  IF st.ord[edge_idx] # None
            THEN AssignOutgoingLastFirst(es, visited, rest, st)
            ELSE
                LET ord1 == [st.ord EXCEPT ![edge_idx] = st.cur]
                    target_node == es[edge_idx].target
                    all_incoming_processed ==
                        \A idx \in edge_targets(es, target_node) : ord1[idx] # None
                    q1 == IF target_node \notin visited
                             /\ (all_incoming_processed \/ ~InQueue(st.q, target_node))
                          THEN Append(st.q, target_node)
                          ELSE st.q
                IN  AssignOutgoingLastFirst(es, visited, rest,
                                            [ord |-> ord1, cur |-> st.cur + 1, q |-> q1])

\* Mutation of AssignOutgoing: the target of a numbered edge is never
\* appended to the deque.
RECURSIVE AssignOutgoingWithoutEnqueue(_, _, _, _)
AssignOutgoingWithoutEnqueue(es, visited, idxs, st) ==
    IF idxs = {} THEN st
    ELSE
        LET edge_idx == Min(idxs)
            rest == idxs \ {edge_idx}
        IN  IF st.ord[edge_idx] # None
            THEN AssignOutgoingWithoutEnqueue(es, visited, rest, st)
            ELSE AssignOutgoingWithoutEnqueue(es, visited, rest,
                     [ord |-> [st.ord EXCEPT ![edge_idx] = st.cur], cur |-> st.cur + 1,
                      q |-> st.q])

RECURSIVE AssignOutgoing(_, _, _, _)
AssignOutgoing(es, visited, idxs, st) ==
    IF idxs = {} THEN st
    ELSE
        LET edge_idx == Min(idxs)
            rest == idxs \ {edge_idx}
        IN  IF st.ord[edge_idx] # None
            THEN AssignOutgoing(es, visited, rest, st)
            ELSE
                LET ord1 == [st.ord EXCEPT ![edge_idx] = st.cur]
                    target_node == es[edge_idx].target
                    all_incoming_processed ==
                        \A idx \in edge_targets(es, target_node) : ord1[idx] # None
                    q1 == IF target_node \notin visited
                             /\ (all_incoming_processed \/ ~InQueue(st.q, target_node))
                          THEN Append(st.q, target_node)
                          ELSE st.q
                IN  AssignOutgoing(es, visited, rest,
                                   [ord |-> ord1, cur |-> st.cur + 1, q |-> q1])

\* Mutation of AssignRemaining: the trailing loop is left out.
AssignRemainingSkipped(ord, cur, i) == ord

\* The trailing loop: edges still unassigned get the next values in
\* declaration order.
RECURSIVE AssignRemaining(_, _, _)
AssignRemaining(ord, cur, i) ==
    IF i > Len(ord) THEN ord
    ELSE IF ord[i] = None
         THEN AssignRemaining([ord EXCEPT ![i] = cur], cur + 1, i + 1)
         ELSE AssignRemaining(ord, cur, i + 1)

\* if not edges: return edges
EmptyReturn ==
    /\ pc = "seed"
    /\ edges = <<>>
    /\ pc' = "done"
    /\ UNCHANGED <<text, edges, queue, visited_nodes, ordered_edges, current_order,
                   run, prev_orders>>
    /\ UNCHANGED animator_vars

\* Build the adjacency maps and the start nodes, create the deque.
Seed ==
    /\ pc = "seed"
    /\ edges # <<>>
    /\ \E start_nodes \in IterationOrders(StartSet(edges)) :
           queue' = start_nodes
    /\ ordered_edges' = [i \in DOMAIN edges |-> None]
    /\ current_order' = 0
    /\ visited_nodes' = {}
    /\ pc' = "visit"
    /\ UNCHANGED <<text, edges, run, prev_orders>>
    /\ UNCHANGED animator_vars

\* One iteration of the while loop on a node that was already visited.
SkipVisited ==
    /\ pc = "visit"
    /\ queue # <<>>
    /\ Head(queue) \in visited_nodes
    /\ queue' = Tail(queue)
    /\ UNCHANGED <<text, edges, pc, visited_nodes, ordered_edges, current_order,
                   run, prev_orders>>
    /\ UNCHANGED animator_vars

\* Mutation of Visit: the expanded node is not added to visited_nodes.
VisitWithoutMarking ==
    /\ pc = "visit"
    /\ queue # <<>>
    /\ Head(queue) \notin visited_nodes
    /\ LET current_node == Head(queue)
           visited == visited_nodes \cup {current_node}
           st == AssignOutgoing(edges, visited, edge_graph(edges, current_node),
                                [ord |-> ordered_edges, cur |-> current_order,
                                 q |-> Tail(queue)])
       IN  /\ visited_nodes' = visited_nodes
           /\ ordered_edges' = st.ord
           /\ current_order' = st.cur
           /\ queue' = st.q
    /\ UNCHANGED <<text, edges, pc, run, prev_orders>>
    /\ UNCHANGED animator_vars

\* One iteration of the while loop that expands a node.
Visit ==
    /\ pc = "visit"
    /\ queue # <<>>
    /\ Head(queue) \notin visited_nodes
    /\ LET current_node == Head(queue)
           visited == visited_nodes \cup {current_node}
           st == AssignOutgoing(edges, visited, edge_graph(edges, current_node),
                                [ord |-> ordered_edges, cur |-> current_order,
                                 q |-> Tail(queue)])
       IN  /\ visited_nodes' = visited
           /\ ordered_edges' = st.ord
           /\ current_order' = st.cur
           /\ queue' = st.q
    /\ UNCHANGED <<text, edges, pc, run, prev_orders>>
    /\ UNCHANGED animator_vars

\* The queue is empty: number the remaining edges and return.
Remaining ==
    /\ pc = "visit"
    /\ queue = <<>>
    /\ ordered_edges' = AssignRemaining(ordered_edges, current_order, 1)
    /\ current_order' =
           current_order + Cardinality({i \in DOMAIN edges : ordered_edges[i] = None})
    /\ pc' = "done"
    /\ UNCHANGED <<text, edges, queue, visited_nodes, run, prev_orders>>
    /\ UNCHANGED animator_vars

\* The extractor is constructed a second time on the same text.
Rerun ==
    /\ pc = "done"
    /\ run = 1
    /\ edges # <<>>
    /\ run' = 2
    /\ prev_orders' = ordered_edges
    /\ pc' = "seed"
    /\ queue' = <<>>
    /\ visited_nodes' = {}
    /\ ordered_edges' = <<>>
    /\ current_order' = 0
    /\ UNCHANGED <<text, edges>>
    /\ UNCHANGED animator_vars

Max(S) == CHOOSE x \in S : \A y \in S : x >= y

\* The endpoint sequences s1,t1,s2,t2,... of length n in which node k+1 is
\* used only after node k: every edge list up to a renaming of the nodes (the
\* computation only compares node identifiers for equality).
RECURSIVE Endpoints(_)
Endpoints(n) ==
    IF n = 0 THEN {<<>>}
    ELSE {x \in {Append(e, k) : e \in Endpoints(n - 1), k \in 1..n} :
              x[n] <= Max({x[i] : i \in 1..(n - 1)} \cup {0}) + 1}

EdgeListsOf(n) ==
    {[i \in 1..n |-> EdgeSemantics(Node(e[2 * i - 1]), Node(e[2 * i]),
                                   "forward", "dependency")] : e \in Endpoints(2 * n)}

InitOrder ==
    /\ text = <<>>
    /\ \E n \in 0..MaxEdges : edges \in EdgeListsOf(n)
    /\ pc = "seed"
    /\ queue = <<>>
    /\ visited_nodes = {}
    /\ ordered_edges = <<>>
    /\ current_order = 0
    /\ run = 1
    /\ prev_orders = <<>>
    /\ NoAnimator

NextOrder == EmptyReturn \/ Seed \/ SkipVisited \/ Visit \/ Remaining

SpecOrder == InitOrder /\ [][NextOrder]_vars

\* The computation is a sequential loop: a step that can be taken is taken.
SpecOrderLive == InitOrder /\ [][NextOrder]_vars /\ WF_vars(NextOrder)

\* The same, with the extractor constructed twice on the same text.
NextRerun == NextOrder \/ Rerun

SpecRerun == InitOrder /\ [][NextRerun]_vars

(***************************************************************************)
(* _parse_edge_semantics: texts are sequences of characters.               *)
(***************************************************************************)
\* \w of the regular expressions, restricted to the letters of the model.
WordChars == {"A", "B", "C", "o", "x"}

\* \s and str.strip(): whitespace inside a line.
SpaceChars == {" ", "\t"}

\* The ordered pattern table; every row is (\w+)\s*<lit>\s*(\w+).
patterns == <<
    [lit |-> <<"|", "|", "-", "-", "|", "|">>, edge_type |-> "aggregation", direction |-> "forward"],
    [lit |-> <<"}", "|", ".", ".", "-", "-", ">", "|", "{">>, edge_type |-> "composition", direction |-> "forward"],
    [lit |-> <<"<", "|", "-", "-">>, edge_type |-> "extension", direction |-> "forward"],
    [lit |-> <<"-", "-", ">">>, edge_type |-> "dependency", direction |-> "forward"],
    [lit |-> <<"-", "-", ">">>, edge_type |-> "arrow", direction |-> "forward"],
    [lit |-> <<"<", "-", "-", ">">>, edge_type |-> "arrow", direction |-> "bidirectional"],
    [lit |-> <<"-", ".", "-", ">">>, edge_type |-> "dotted_arrow", direction |-> "forward"],
    [lit |-> <<"<", "-", ".", "-", ">">>, edge_type |-> "dotted_arrow", direction |-> "bidirectional"],
    [lit |-> <<"=", "=", ">">>, edge_type |-> "thick_arrow", direction |-> "forward"],
    [lit |-> <<"-", "-", "o">>, edge_type |-> "circle", direction |-> "forward"],
    [lit |-> <<"-", "-", "x">>, edge_type |-> "cross", direction |-> "forward"] >>

\* Last index of the run of word characters that starts at i (greedy \w+).
WordRunEnd(s, i) ==
    CHOOSE j \in i..Len(s) :
        /\ \A t \in i..j : s[t] \in WordChars
        /\ (j = Len(s) \/ s[j + 1] \notin WordChars)

\* First index at or after k that holds no whitespace (greedy \s*).
SkipSpace(s, k) ==
    CHOOSE m \in k..(Len(s) + 1) :
        /\ \A t \in k..(m - 1) : s[t] \in SpaceChars
        /\ (m = Len(s) + 1 \/ s[m] \notin SpaceChars)

\* Does (\w+)\s*lit\s*(\w+) match with the match starting at index i.  The
\* literals start with a character that is neither \w nor \s, so the greedy
\* runs never give a character back.
MatchAt(s, i, lit) ==
    /\ s[i] \in WordChars
    /\ LET k == SkipSpace(s, WordRunEnd(s, i) + 1)
           m == SkipSpace(s, k + Len(lit))
       IN  /\ k + Len(lit) - 1 <= Len(s)
           /\ SubSeq(s, k, k + Len(lit) - 1) = lit
           /\ m <= Len(s)
           /\ s[m] \in WordChars

\* re.search found nothing.
NoMatch == <<>>

\* re.search: the groups of the leftmost match, or NoMatch.
Search(lit, s) ==
    IF \E i \in DOMAIN s : MatchAt(s, i, lit)
    THEN LET i == Min({t \in DOMAIN s : MatchAt(s, t, lit)})
             j == WordRunEnd(s, i)
             m == SkipSpace(s, SkipSpace(s, j + 1) + Len(lit))
         IN  <<SubSeq(s, i, j), SubSeq(s, m, WordRunEnd(s, m))>>
    ELSE NoMatch

\* str.strip()
Strip(s) ==
    IF \A t \in DOMAIN s : s[t] \in SpaceChars THEN <<>>
    ELSE LET a == Min({t \in DOMAIN s : s[t] \notin SpaceChars})
             b == CHOOSE t \in DOMAIN s :
                      s[t] \notin SpaceChars /\ \A u \in (t + 1)..Len(s) : s[u] \in SpaceChars
         IN  SubSeq(s, a, b)

\* str.split(sep) for a one-character separator.
RECURSIVE Split(_, _)
Split(s, sep) ==
    IF \A t \in DOMAIN s : s[t] # sep THEN <<s>>
    ELSE LET c == Min({t \in DOMAIN s : s[t] = sep})
         IN  <<SubSeq(s, 1, c - 1)>> \o Split(SubSeq(s, c + 1, Len(s)), sep)

\* Mutation of MatchRecord: the extension swap is left out.
MatchRecordNoSwap(row, groups) ==
    EdgeSemantics(groups[1], groups[2], row.direction, row.edge_type)

\* The record a match of the given table row produces (lines 95-109).
MatchRecord(row, groups) ==
    IF row.edge_type = "extension"
    THEN EdgeSemantics(groups[2], groups[1], row.direction, row.edge_type)
    ELSE IF row.direction = "backward"
         THEN EdgeSemantics(groups[2], groups[1], "forward", row.edge_type)
         ELSE EdgeSemantics(groups[1], groups[2], row.direction, row.edge_type)

\* Mutation of MatchPatterns: the break after the first match is left out.
RECURSIVE MatchPatternsNoBreak(_, _)
MatchPatternsNoBreak(edge_part, k) ==
    IF k > Len(patterns) THEN <<>>
    ELSE (IF Search(patterns[k].lit, edge_part) # NoMatch
          THEN <<MatchRecord(patterns[k], Search(patterns[k].lit, edge_part))>>
          ELSE <<>>) \o MatchPatternsNoBreak(edge_part, k + 1)

\* for pattern, edge_type, direction in patterns: ... break.  The records
\* one statement contributes, trying the rows from row k on.
RECURSIVE MatchPatterns(_, _)
MatchPatterns(edge_part, k) ==
    IF k > Len(patterns) THEN <<>>
    ELSE IF Search(patterns[k].lit, edge_part) # NoMatch
         THEN <<MatchRecord(patterns[k], Search(patterns[k].lit, edge_part))>>
         ELSE MatchPatterns(edge_part, k + 1)

\* edge_parts = [part.strip() for part in line.split(';') if part.strip()]
RECURSIVE StripParts(_)
StripParts(parts) ==
    IF parts = <<>> THEN <<>>
    ELSE (IF Strip(Head(parts)) # <<>> THEN <<Strip(Head(parts))>> ELSE <<>>)
         \o StripParts(Tail(parts))

RECURSIVE ParseParts(_)
ParseParts(edge_parts) ==
    IF edge_parts = <<>> THEN <<>>
    ELSE MatchPatterns(Head(edge_parts), 1) \o ParseParts(Tail(edge_parts))

\* The loop over the lines of the definition.
RECURSIVE ParseLines(_)
ParseLines(lines) ==
    IF lines = <<>> THEN <<>>
    ELSE LET line == Strip(Head(lines))
         IN  (IF line = <<>> \/ line[1] = "%" THEN <<>>
              ELSE ParseParts(StripParts(Split(line, ";"))))
             \o ParseLines(Tail(lines))

\* _parse_edge_semantics up to the call of _calculate_animation_order.
Parse ==
    /\ pc = "parse"
    /\ edges' = ParseLines(Split(text, "\n"))
    /\ pc' = "seed"
    /\ UNCHANGED <<text, queue, visited_nodes, ordered_edges, current_order,
                   run, prev_orders>>
    /\ UNCHANGED animator_vars

(***************************************************************************)
(* The texts of the model: up to MaxStatements statements, each followed   *)
(* by ';' or a line break.                                                 *)
(***************************************************************************)
MaxStatements == 2

\* Operators that are no edge syntax of the table.
UnknownOperators == {<<"-", "-", "-">>, <<"<", "-", "-">>, <<"-", ".", "-">>}

Operators == {patterns[k].lit : k \in DOMAIN patterns} \cup UnknownOperators

\* AB op C for every operator, and further statements: empty, a node
\* declaration, comments, a two-arrow statement, statements without blanks,
\* edges between one-letter nodes.
Statements ==
    {<<"A", "B", " ">> \o op \o <<" ", "C">> : op \in Operators}
    \cup {<<>>, <<"A">>, <<"%", "C">>, <<" ", "%", "A", "-", "-", ">", "B">>,
          <<"A", "-", "-", ">", "B", "-", "-", ">", "C">>,
          <<"C", "-", "-", ">", "A">>, <<"B", "<", "|", "-", "-", "A">>,
          <<"A", "-", "-", "o", "x", "B">>,
          <<"B", " ", "-", "-", ">", " ", "C">>}

Separators == {<<";">>, <<"\n">>}

RECURSIVE TextsOf(_)
TextsOf(n) ==
    IF n = 0 THEN {<<>>}
    ELSE {st \o sep \o rest : st \in Statements, sep \in Separators, rest \in TextsOf(n - 1)}

InitParse ==
    /\ \E n \in 0..MaxStatements : text \in TextsOf(n)
    /\ edges = <<>>
    /\ pc = "parse"
    /\ queue = <<>>
    /\ visited_nodes = {}
    /\ ordered_edges = <<>>
    /\ current_order = 0
    /\ run = 1
    /\ prev_orders = <<>>
    /\ NoAnimator

NextParse == Parse

\* _parse_edge_semantics on every text of the model; the order computation
\* that follows is SpecOrder.
SpecParse == InitParse /\ [][NextParse]_vars

(***************************************************************************)
(* SVGAnimator: the element tree.                                          *)
(*                                                                         *)
(* A tree is the sequence of its elements in document order, each with its *)
(* depth (the root has depth 0).  uid is the identity of the element       *)
(* object.  Attribute values are strings ("" = attribute absent) or        *)
(* sequences of tokens (<<>> = attribute absent).                          *)
(***************************************************************************)
NoAttr == <<>>
NONE == <<"none">>

\* url(#id)
Url(id) == <<"url">> \o id

\* The value of a d attribute: absent, a string parse_path rejects, or a
\* path through the given points <<x, y>>.
NoD == [kind |-> "absent", pts |-> <<>>]
BadD == [kind |-> "malformed", pts |-> <<>>]
PathD(pts) == [kind |-> "path", pts |-> pts]

Element(tag, depth) ==
    [uid |-> 0, tag |-> tag, depth |-> depth, id |-> NoAttr, d |-> NoD, flow |-> "",
     marker_start |-> NoAttr, marker_end |-> NoAttr, order |-> "", style |-> <<>>,
     class |-> "", stroke |-> "", fill |-> "", transform |-> "",
     source_node |-> NoAttr, target_node |-> NoAttr, edge_type |-> "", refX |-> -1]

\* Index of the element object u in tree t.
IndexOf(t, u) == CHOOSE i \in DOMAIN t : t[i].uid = u

\* Element i lies below element j.
IsDescendant(t, i, j) == j < i /\ \A k \in (j + 1)..i : t[k].depth > t[j].depth

\* Index of the last element of the subtree of j.
SubtreeEnd(t, j) ==
    CHOOSE i \in j..Len(t) :
        /\ \A k \in (j + 1)..i : t[k].depth > t[j].depth
        /\ (i = Len(t) \/ t[i + 1].depth <= t[j].depth)

\* Index of the parent of element i (0 for the root).
Parent(t, i) ==
    IF t[i].depth = 0 THEN 0
    ELSE Max({j \in 1..(i - 1) : t[j].depth = t[i].depth - 1})

InsertAt(t, pos, elems) == SubSeq(t, 1, pos - 1) \o elems \o SubSeq(t, pos, Len(t))

\* The indices in S as an ascending sequence.
RECURSIVE Ascending(_)
Ascending(S) ==
    IF S = {} THEN <<>> ELSE <<Min(S)>> \o Ascending(S \ {Min(S)})

\* root.findall(".//svg:<tag>"): the element objects, in document order.
FindAll(t, tag) ==
    LET idx == Ascending({i \in DOMAIN t : i > 1 /\ t[i].tag = tag})
    IN  [k \in DOMAIN idx |-> t[idx[k]].uid]

InMarker(t, i) == \E j \in DOMAIN t : t[j].tag = "marker" /\ IsDescendant(t, i, j)

\* root.findall(".//svg:marker//svg:<tag>")
FindAllInMarker(t, tag) ==
    LET idx == Ascending({i \in DOMAIN t : t[i].tag = tag /\ InMarker(t, i)})
    IN  [k \in DOMAIN idx |-> t[idx[k]].uid]

\* _is_node_shape_path: the path lies in a group whose id starts with 'flowchart-'.
is_node_shape_path(t, i) ==
    \E j \in DOMAIN t :
        /\ j > 1
        /\ t[j].tag = "g"
        /\ t[j].id # NoAttr
        /\ Head(t[j].id) = "flowchart-"
        /\ IsDescendant(t, i, j)

RECURSIVE Reverse(_)
Reverse(q) == IF q = <<>> THEN <<>> ELSE Append(Reverse(Tail(q)), Head(q))

\* path_obj.length(): the points are one unit apart.
PathLength(d) == IF d.pts = <<>> THEN 0 ELSE Len(d.pts) - 1

\* Mutation of ReversedD: the curve is not reversed.
ReversedDUnchanged(d) == d

\* path_obj.reversed().d()
ReversedD(d) == PathD(Reverse(d.pts))

\* _flip_path_horizontally: every coordinate pair x,y becomes (width - x),y.
flip_path_horizontally(d, width) ==
    PathD([k \in DOMAIN d.pts |-> <<width - d.pts[k][1], d.pts[k][2]>>])

\* "extension" in marker_id.lower(), for the marker ids of the model.
IsExtensionId(marker_id) ==
    marker_id # <<>> /\ Head(marker_id) \in {"extensionStart", "extensionEnd"}

\* refX of the extension markers, hard-coded in _create_reversed_marker.
ExtensionRefX == 18

\* Index of the marker .//svg:defs/svg:marker[@id=marker_id], 0 if none.
FindMarkerInDefs(t, marker_id) ==
    LET hits == {i \in DOMAIN t :
                    /\ t[i].tag = "marker"
                    /\ t[i].id = marker_id
                    /\ Parent(t, i) > 1
                    /\ t[Parent(t, i)].tag = "defs"}
    IN  IF hits = {} THEN 0 ELSE Min(hits)

\* Index of root.find(".//svg:defs"), 0 if none.
FirstDefs(t) ==
    LET hits == {i \in DOMAIN t : i > 1 /\ t[i].tag = "defs"}
    IN  IF hits = {} THEN 0 ELSE Min(hits)

\* The deep copy of the marker at index m, re-identified and mirrored, as
\* children-to-be of an element of depth defs_depth.
ReversedMarkerCopy(t, m, marker_id, defs_depth, first_uid) ==
    [k \in 1..(SubtreeEnd(t, m) - m + 1) |->
        LET e == t[m + k - 1]
            moved == [e EXCEPT !.uid = first_uid + k - 1,
                               !.depth = e.depth - t[m].depth + defs_depth + 1]
        IN  IF k = 1 THEN [moved EXCEPT !.id = marker_id \o <<"_reversed">>]
            ELSE IF e.tag = "path" /\ e.d.kind # "absent" /\ IsExtensionId(marker_id)
                 THEN [moved EXCEPT !.d = IF e.d.kind = "path"
                                          THEN flip_path_horizontally(e.d, ExtensionRefX)
                                          ELSE e.d]
                 ELSE moved]

\* Mutation of create_reversed_marker: the memo is not consulted.
create_reversed_marker_unmemoized(st, marker_id) ==
    LET t == st.tree
        original_marker == FindMarkerInDefs(t, marker_id)
        defs == FirstDefs(t)
    IN  IF original_marker = 0 \/ defs = 0 THEN st
        ELSE [tree |-> InsertAt(t, SubtreeEnd(t, defs) + 1,
                                ReversedMarkerCopy(t, original_marker, marker_id,
                                                   t[defs].depth, Len(t) + 1)),
              memo |-> st.memo \cup {marker_id \o <<"_reversed">>}]

\* _create_reversed_marker on st = [tree, memo].
create_reversed_marker(st, marker_id) ==
    LET t == st.tree
        reversed_id == marker_id \o <<"_reversed">>
        original_marker == FindMarkerInDefs(t, marker_id)
        defs == FirstDefs(t)
    IN  IF reversed_id \in st.memo THEN st
        ELSE IF original_marker = 0 THEN st
        ELSE IF defs = 0 THEN st
        ELSE [tree |-> InsertAt(t, SubtreeEnd(t, defs) + 1,
                                ReversedMarkerCopy(t, original_marker, marker_id,
                                                   t[defs].depth, Len(t) + 1)),
              memo |-> st.memo \cup {reversed_id}]

(***************************************************************************)
(* SVGAnimator.process and process_with_theme.  Delays are in hundredths   *)
(* of a second.  A style attribute is the sequence of the declaration      *)
(* blocks appended to it; a property a block does not set is -1, "" or     *)
(* NoAttr.                                                                 *)
(***************************************************************************)
StyleBlock(length, glow, ms, me, delay) ==
    [length |-> length, glow_color |-> glow, marker_start |-> ms, marker_end |-> me,
     delay |-> delay]

\* The style configuration: process(color) uses fixed staggers, a theme
\* derives them from stagger_delay.
NoThemeConfig(color) ==
    [themed |-> FALSE, color |-> color, edge_class |-> "anim-edge neon-glow",
     node_style |-> "", stagger |-> 30, tip_stagger |-> 10, element_stagger |-> 5,
     node_stagger |-> 15]

\* Mutation of Theme: the edge class does not depend on edge_style.
ThemeAlwaysNeon(primary_color, edge_style, node_style, stagger_delay) ==
    [themed |-> TRUE, color |-> primary_color, edge_style |-> edge_style,
     edge_class |-> "anim-edge neon-glow",
     node_style |-> node_style, stagger |-> stagger_delay,
     tip_stagger |-> stagger_delay \div 5, element_stagger |-> stagger_delay \div 10,
     node_stagger |-> stagger_delay \div 2]

Theme(primary_color, edge_style, node_style, stagger_delay) ==
    [themed |-> TRUE, color |-> primary_color, edge_style |-> edge_style,
     edge_class |-> IF edge_style = "neon" THEN "anim-edge neon-glow"
                    ELSE IF edge_style = "hand-drawn" THEN "anim-edge hand-drawn"
                    ELSE "anim-edge clean-edge",
     node_style |-> node_style, stagger |-> stagger_delay,
     tip_stagger |-> stagger_delay \div 5, element_stagger |-> stagger_delay \div 10,
     node_stagger |-> stagger_delay \div 2]

CYBERPUNK == Theme("#00ff99", "neon", "glass", 30)
CORPORATE == Theme("#2563eb", "clean", "solid", 20)
HAND_DRAWN == Theme("#374151", "hand-drawn", "outlined", 40)

\* Mutation of IntOf: every integer reads as 0.
IntOfAlwaysZero(str) ==
    IF str \in {"0", "1", "2", "3"} THEN 0 ELSE -1

\* int(animation_order); -1 stands for the ValueError of a non-integer.
IntOf(str) ==
    CASE str = "0" -> 0 [] str = "1" -> 1 [] str = "2" -> 2 [] str = "3" -> 3
      [] OTHER -> -1

\* path.get("marker-start", "none")
MarkerOrNone(v) == IF v = NoAttr THEN NONE ELSE v

\* marker_start.replace("url(#", "").replace(")", "")
MarkerIdOf(v) == IF Head(v) = "url" THEN Tail(v) ELSE v

\* Mutation of needs_reversal: the backward case is tested like the forward one.
needs_reversal_forward_only(flow_direction, marker_start, marker_end) ==
    flow_direction \in {"forward", "backward"}
    /\ marker_start # NONE /\ marker_end = NONE

\* Mutation of needs_reversal: a forward curve is reversed whenever it has
\* no marker at its end.
needs_reversal_ignoring_start(flow_direction, marker_start, marker_end) ==
    IF flow_direction = "forward"
    THEN marker_end = NONE
    ELSE IF flow_direction = "backward"
         THEN marker_end # NONE /\ marker_start = NONE
         ELSE FALSE

\* The reconciliation predicate of process / process_with_theme.
needs_reversal(flow_direction, marker_start, marker_end) ==
    IF flow_direction = "forward"
    THEN marker_start # NONE /\ marker_end = NONE
    ELSE IF flow_direction = "backward"
         THEN marker_end # NONE /\ marker_start = NONE
         ELSE FALSE

SetElem(st, u, e) == [st EXCEPT !.tree[IndexOf(st.tree, u)] = e]

\* Mutation of ReverseLine: the markers are mirrored but not swapped.
ReverseLineWithoutSwap(st, u) ==
    LET p == st.tree[IndexOf(st.tree, u)]
        ms0 == MarkerOrNone(p.marker_start)
        me0 == MarkerOrNone(p.marker_end)
        st1 == SetElem(st, u, [p EXCEPT !.d = ReversedD(p.d)])
        st2 == IF ms0 # NONE THEN create_reversed_marker(st1, MarkerIdOf(ms0)) ELSE st1
        ms1 == IF ms0 # NONE THEN Url(MarkerIdOf(ms0) \o <<"_reversed">>) ELSE ms0
        st3 == IF me0 # NONE THEN create_reversed_marker(st2, MarkerIdOf(me0)) ELSE st2
        me1 == IF me0 # NONE THEN Url(MarkerIdOf(me0) \o <<"_reversed">>) ELSE me0
        q == st3.tree[IndexOf(st3.tree, u)]
    IN  [st |-> SetElem(st3, u, [q EXCEPT !.marker_start = ms1, !.marker_end = me1]),
         marker_start |-> ms1, marker_end |-> me1]

\* The reversal branch for the line path u (its d parses): the tree and memo
\* after it, and the local marker_start / marker_end after the swap.
ReverseLine(st, u) ==
    LET p == st.tree[IndexOf(st.tree, u)]
        ms0 == MarkerOrNone(p.marker_start)
        me0 == MarkerOrNone(p.marker_end)
        st1 == SetElem(st, u, [p EXCEPT !.d = ReversedD(p.d)])
        st2 == IF ms0 # NONE THEN create_reversed_marker(st1, MarkerIdOf(ms0)) ELSE st1
        ms1 == IF ms0 # NONE THEN Url(MarkerIdOf(ms0) \o <<"_reversed">>) ELSE ms0
        st3 == IF me0 # NONE THEN create_reversed_marker(st2, MarkerIdOf(me0)) ELSE st2
        me1 == IF me0 # NONE THEN Url(MarkerIdOf(me0) \o <<"_reversed">>) ELSE me0
        q == st3.tree[IndexOf(st3.tree, u)]
    IN  [st |-> SetElem(st3, u, [q EXCEPT !.marker_start = me1, !.marker_end = ms1]),
         marker_start |-> me1, marker_end |-> ms1]

\* The try block of the loop over line_paths once parse_path has succeeded,
\* for the line path u at position i.
ProcessMeasurableLine(st, u, i, cfg) ==
    LET p == st.tree[IndexOf(st.tree, u)]
        flow_direction == IF p.flow = "" THEN "forward" ELSE p.flow
        reversal == needs_reversal(flow_direction, MarkerOrNone(p.marker_start),
                                   MarkerOrNone(p.marker_end))
        r == IF reversal THEN ReverseLine(st, u)
             ELSE [st |-> st, marker_start |-> MarkerOrNone(p.marker_start),
                   marker_end |-> MarkerOrNone(p.marker_end)]
        q == r.st.tree[IndexOf(r.st.tree, u)]
        delay == IF q.order # "" THEN IntOf(q.order) * cfg.stagger
                 ELSE i * cfg.stagger
    IN  IF q.order # "" /\ IntOf(q.order) = -1
        THEN r.st                              \* int() raises: caught
        ELSE SetElem(r.st, u,
                [q EXCEPT
                    !.style = Append(@, StyleBlock(PathLength(q.d), cfg.color,
                                                   r.marker_start, r.marker_end,
                                                   delay)),
                    !.class = cfg.edge_class,
                    !.marker_start = IF r.marker_start # NONE THEN NoAttr ELSE @,
                    !.marker_end = IF r.marker_end # NONE THEN NoAttr ELSE @,
                    !.stroke = cfg.color,
                    !.fill = "none"])

\* Mutation of ProcessLine: a path without d is not skipped.
ProcessLineWithoutSkip(st, u, i, cfg) ==
    IF st.tree[IndexOf(st.tree, u)].d.kind = "malformed" THEN st
    ELSE ProcessMeasurableLine(st, u, i, cfg)

\* Mutation of ProcessLine: the class is set before the geometry is computed.
ProcessLineClassFirst(st, u, i, cfg) ==
    LET p == st.tree[IndexOf(st.tree, u)]
    IN  IF p.d.kind = "absent" THEN st
        ELSE IF p.d.kind = "malformed"
             THEN SetElem(st, u, [p EXCEPT !.class = cfg.edge_class])
             ELSE ProcessMeasurableLine(st, u, i, cfg)

\* One iteration of the loop over line_paths: the line path u at position i.
ProcessLine(st, u, i, cfg) ==
    LET p == st.tree[IndexOf(st.tree, u)]
    IN  IF p.d.kind = "absent" THEN st                 \* if not d_string: continue
        ELSE IF p.d.kind = "malformed" THEN st         \* parse_path raises
        ELSE ProcessMeasurableLine(st, u, i, cfg)

RECURSIVE ProcessLines(_, _, _, _)
ProcessLines(st, line_paths, i, cfg) ==
    IF i >= Len(line_paths) THEN st
    ELSE ProcessLines(ProcessLine(st, line_paths[i + 1], i, cfg), line_paths, i + 1, cfg)

\* One iteration of the loop over arrow_tip_paths.
ProcessTip(st, u, i, n_lines, cfg) ==
    LET p == st.tree[IndexOf(st.tree, u)]
    IN  IF p.d.kind # "path" THEN st
        ELSE SetElem(st, u,
                [p EXCEPT
                    !.style = Append(@, StyleBlock(PathLength(p.d), cfg.color, NoAttr, NoAttr,
                                                   n_lines * cfg.stagger + i * cfg.tip_stagger)),
                    !.class = cfg.edge_class,
                    !.stroke = cfg.color,
                    !.fill = "none"])

RECURSIVE ProcessTips(_, _, _, _, _)
ProcessTips(st, arrow_tip_paths, i, n_lines, cfg) ==
    IF i >= Len(arrow_tip_paths) THEN st
    ELSE ProcessTips(ProcessTip(st, arrow_tip_paths[i + 1], i, n_lines, cfg),
                     arrow_tip_paths, i + 1, n_lines, cfg)

\* rect, circle, ellipse and polygon elements inside markers, in that order.
MarkerElements(t) ==
    FindAllInMarker(t, "rect") \o FindAllInMarker(t, "circle")
    \o FindAllInMarker(t, "ellipse") \o FindAllInMarker(t, "polygon")

RECURSIVE ProcessMarkerElements(_, _, _, _, _)
ProcessMarkerElements(st, marker_elements, i, base_delay, cfg) ==
    IF i >= Len(marker_elements) THEN st
    ELSE LET u == marker_elements[i + 1]
             e == st.tree[IndexOf(st.tree, u)]
         IN  ProcessMarkerElements(
                 SetElem(st, u,
                     [e EXCEPT !.style = Append(@, StyleBlock(-1, "", NoAttr, NoAttr,
                                                     base_delay + i * cfg.element_stagger)),
                               !.class = cfg.edge_class]),
                 marker_elements, i + 1, base_delay, cfg)

\* rect, circle, ellipse and polygon elements outside markers.
SelectOutsideMarker(t, uids) ==
    SelectSeq(uids, LAMBDA u : ~InMarker(t, IndexOf(t, u)))

\* Mutation of NodeElements: the elements inside markers are not filtered out.
NodeElementsUnfiltered(t) ==
    FindAll(t, "rect") \o FindAll(t, "circle") \o FindAll(t, "ellipse")
    \o FindAll(t, "polygon")

NodeElements(t) ==
    SelectOutsideMarker(t, FindAll(t, "rect")) \o SelectOutsideMarker(t, FindAll(t, "circle"))
    \o SelectOutsideMarker(t, FindAll(t, "ellipse"))
    \o SelectOutsideMarker(t, FindAll(t, "polygon"))

NodeClass(cfg, animated) ==
    LET static == IF cfg.node_style = "glass" THEN "glass-node"
                  ELSE IF cfg.node_style = "outlined" THEN "outlined-node"
                  ELSE "solid-node"
    IN  IF animated
        THEN (IF static = "glass-node" THEN "anim-node glass-node"
              ELSE IF static = "outlined-node" THEN "anim-node outlined-node"
              ELSE "anim-node solid-node")
        ELSE static

RECURSIVE ProcessNodes(_, _, _, _)
ProcessNodes(st, nodes, i, cfg) ==
    IF i >= Len(nodes) THEN st
    ELSE LET u == nodes[i + 1]
             node == st.tree[IndexOf(st.tree, u)]
             has_transform == node.transform # ""
             skip_animation == \/ (has_transform /\ node.tag = "polygon")
                               \/ (node.tag = "path" /\ has_transform)
             styled == IF skip_animation THEN node
                       ELSE [node EXCEPT !.style = Append(@, StyleBlock(-1, "", NoAttr, NoAttr,
                                                                i * cfg.node_stagger))]
         IN  ProcessNodes(
                 SetElem(st, u, [styled EXCEPT !.class = NodeClass(cfg, ~skip_animation)]),
                 nodes, i + 1, cfg)

RECURSIVE ProcessNodeShapePaths(_, _, _, _)
ProcessNodeShapePaths(st, node_shape_paths, i, cfg) ==
    IF i >= Len(node_shape_paths) THEN st
    ELSE LET u == node_shape_paths[i + 1]
             path == st.tree[IndexOf(st.tree, u)]
         IN  ProcessNodeShapePaths(
                 SetElem(st, u,
                     [path EXCEPT !.style = Append(@, StyleBlock(-1, "", NoAttr, NoAttr,
                                                        i * cfg.node_stagger)),
                                  !.class = NodeClass(cfg, TRUE)]),
                 node_shape_paths, i + 1, cfg)

\* The three classes of path elements, as sequences of element objects.
ArrowTipPaths(t) == FindAllInMarker(t, "path")

NodeShapePaths(t) ==
    SelectSeq(FindAll(t, "path"),
              LAMBDA u : ~InMarker(t, IndexOf(t, u)) /\ is_node_shape_path(t, IndexOf(t, u)))

LinePaths(t) ==
    SelectSeq(FindAll(t, "path"),
              LAMBDA u : ~InMarker(t, IndexOf(t, u)) /\ ~is_node_shape_path(t, IndexOf(t, u)))

\* The loop over marker_elements; the list is built after the line loop.
ProcessAllMarkerElements(st, n_lines, n_tips, cfg) ==
    ProcessMarkerElements(st, MarkerElements(st.tree), 0,
                          n_lines * cfg.stagger + n_tips * cfg.tip_stagger, cfg)

\* Steps 3 and 4 of process_with_theme; process has no such steps.
ProcessAllNodes(st, node_shape_paths, cfg) ==
    IF cfg.themed
    THEN ProcessNodeShapePaths(ProcessNodes(st, NodeElements(st.tree), 0, cfg),
                               node_shape_paths, 0, cfg)
    ELSE st

\* The loops of process / process_with_theme over the classified paths.
ProcessClassified(t, memo, line_paths, arrow_tip_paths, node_shape_paths, cfg) ==
    ProcessAllNodes(
        ProcessAllMarkerElements(
            ProcessTips(ProcessLines([tree |-> t, memo |-> memo], line_paths, 0, cfg),
                        arrow_tip_paths, 0, Len(line_paths), cfg),
            Len(line_paths), Len(arrow_tip_paths), cfg),
        node_shape_paths, cfg)

\* Mutation of InjectStyle: the style element is appended as the last child.
InjectStyleAppended(t) == Append(t, [Element("style", 1) EXCEPT !.uid = Len(t) + 1])

\* root.insert(0, style_el)
InjectStyle(t) == InsertAt(t, 2, <<[Element("style", 1) EXCEPT !.uid = Len(t) + 1]>>)

\* The body shared by process and process_with_theme after the style
\* element is inserted.
AnimateTree(t, memo, cfg) ==
    ProcessClassified(t, memo, LinePaths(t), ArrowTipPaths(t), NodeShapePaths(t), cfg)

\* process / process_with_theme: the tree and memo after a call with
\* configuration cfg.
Animate(t, memo, cfg) == AnimateTree(InjectStyle(t), memo, cfg)

MaxLines == 2
MaxCalls == 2

\* The default of process(color).
Colors == {"#00ffcc"}

\* The presets of themes.py.
Themes == {CYBERPUNK, CORPORATE, HAND_DRAWN}

\* process(color)
Process ==
    /\ pc = "svg"
    /\ calls < MaxCalls
    /\ \E color \in Colors :
           LET st == Animate(root, reversed_markers, NoThemeConfig(color))
           IN  /\ root' = st.tree
               /\ reversed_markers' = st.memo
    /\ calls' = calls + 1
    /\ history' = Append(history, root)
    /\ UNCHANGED injector_vars

\* process_with_theme(theme)
ProcessWithTheme ==
    /\ pc = "svg"
    /\ calls < MaxCalls
    /\ \E theme \in Themes :
           LET st == Animate(root, reversed_markers, theme)
           IN  /\ root' = st.tree
               /\ reversed_markers' = st.memo
    /\ calls' = calls + 1
    /\ history' = Append(history, root)
    /\ UNCHANGED injector_vars

\* SVGAnimator(output): a new transformer is constructed on the serialized
\* tree; it starts with an empty _reversed_markers.
Reload ==
    /\ pc = "svg"
    /\ calls >= 1
    /\ reversed_markers' = {}
    /\ UNCHANGED <<root, calls, history>>
    /\ UNCHANGED injector_vars

(***************************************************************************)
(* The trees of the model: a root, one layout of definitions containers    *)
(* and markers, optionally a node group, and up to MaxLines line paths.    *)
(***************************************************************************)
ExtensionStart == <<"extensionStart">>
Arrowhead == <<"arrowhead">>

\* <marker id=...> with one tip path below it, the marker at the given depth.
MarkerWithTip(marker_id, depth) ==
    << [Element("marker", depth) EXCEPT !.id = marker_id, !.refX = 18],
       [Element("path", depth + 1) EXCEPT !.d = PathD(<< <<1, 7>>, <<18, 13>> >>)] >>

\* <marker id=...> with a circle below it.
MarkerWithCircle(marker_id, depth) ==
    << [Element("marker", depth) EXCEPT !.id = marker_id], Element("circle", depth + 1) >>

\* The layouts: no marker at all; one definitions container; one container
\* per marker, as in class diagrams; the marker in a group, as in flowcharts;
\* two markers in one container.
MarkerLayouts ==
    { <<>>,
      <<Element("defs", 1)>> \o MarkerWithTip(ExtensionStart, 2),
      <<Element("defs", 1)>> \o MarkerWithTip(Arrowhead, 2)
          \o <<Element("defs", 1)>> \o MarkerWithTip(ExtensionStart, 2),
      <<Element("g", 1)>> \o MarkerWithTip(ExtensionStart, 2),
      <<Element("defs", 1)>> \o MarkerWithTip(ExtensionStart, 2)
          \o MarkerWithCircle(Arrowhead, 2) }

\* <g id="flowchart-A-0"> with a rect and a node-shape path.
NodeGroup ==
    << [Element("g", 1) EXCEPT !.id = <<"flowchart-", "A-0">>],
       Element("rect", 2),
       [Element("path", 2) EXCEPT !.d = PathD(<< <<0, 0>>, <<4, 0>> >>)] >>

\* Everything of a tree but its line paths.
\* A marker with a tip path without d and a tip path parse_path rejects, and
\* a node group whose path has no d.
EmptyPaths ==
    << Element("defs", 1), [Element("marker", 2) EXCEPT !.id = ExtensionStart],
       Element("path", 3), [Element("path", 3) EXCEPT !.d = BadD],
       [Element("g", 1) EXCEPT !.id = <<"flowchart-", "B-1">>], Element("path", 2) >>

\* <g id="flowchart-C-2"> with a polygon and a node-shape path that both
\* carry a transform.
TransformedNodeGroup ==
    << [Element("g", 1) EXCEPT !.id = <<"flowchart-", "C-2">>],
       [Element("polygon", 2) EXCEPT !.transform = "translate(1,2)"],
       [Element("path", 2) EXCEPT !.d = PathD(<< <<0, 0>>, <<4, 0>> >>),
                                  !.transform = "translate(1,2)"] >>

\* <g id="flowchart-D-3"> holding a rect and a marker with a tip path and a
\* rect.
MarkerInNodeGroup ==
    << [Element("g", 1) EXCEPT !.id = <<"flowchart-", "D-3">>],
       Element("rect", 2),
       [Element("marker", 2) EXCEPT !.id = ExtensionStart],
       [Element("path", 3) EXCEPT !.d = PathD(<< <<1, 7>>, <<18, 13>> >>)],
       Element("rect", 3) >>

Scaffolds ==
    MarkerLayouts
    \cup {<<Element("defs", 1)>> \o MarkerWithTip(ExtensionStart, 2) \o NodeGroup}
    \cup {EmptyPaths}
    \cup {<<Element("defs", 1)>> \o MarkerWithTip(ExtensionStart, 2) \o TransformedNodeGroup}
    \cup {MarkerInNodeGroup}

LineD == PathD(<< <<0, 0>>, <<10, 0>>, <<10, 5>> >>)

Flows == {"", "forward", "backward", "bidirectional"}

\* <<marker-start, marker-end>>
Placements ==
    { <<NoAttr, NoAttr>>, <<Url(ExtensionStart), NoAttr>>, <<NoAttr, Url(ExtensionStart)>>,
      <<Url(ExtensionStart), NONE>>, <<NONE, Url(ExtensionStart)>>,
      <<Url(ExtensionStart), Url(Arrowhead)>> }

Line(d, flow, placement, order) ==
    [Element("path", 1) EXCEPT !.d = d, !.flow = flow, !.marker_start = placement[1],
                               !.marker_end = placement[2], !.order = order]

\* The first line path of a tree.
FirstLines ==
    {Line(LineD, f, m, "") : f \in Flows, m \in Placements}
    \cup {Line(LineD, f, m, o) : f \in {"", "backward"},
                                 m \in {<<Url(ExtensionStart), NoAttr>>,
                                        <<NoAttr, Url(ExtensionStart)>>},
                                 o \in {"3", "x"}}
    \cup {Line(d, "", <<Url(ExtensionStart), NoAttr>>, "") : d \in {NoD, BadD}}
    \cup {Line(LineD, "", <<Url(Arrowhead), NoAttr>>, "")}

\* The line paths after the first.
MoreLines ==
    { Line(LineD, "", <<Url(ExtensionStart), NoAttr>>, ""),
      Line(LineD, "backward", <<NoAttr, NoAttr>>, "0") }

RECURSIVE LinesOf(_)
LinesOf(n) ==
    IF n = 0 THEN {<<>>}
    ELSE IF n = 1 THEN {<<l>> : l \in FirstLines}
    ELSE {Append(ls, l) : ls \in LinesOf(n - 1), l \in MoreLines}

\* ET.fromstring: every element of the document is an object of its own.
FromString(elems) == [i \in DOMAIN elems |-> [elems[i] EXCEPT !.uid = i]]

TreesOf(n) ==
    {FromString(<<Element("svg", 0)>> \o sc \o ls) : sc \in Scaffolds, ls \in LinesOf(n)}

InitAnim ==
    /\ text = <<>>
    /\ edges = <<>>
    /\ pc = "svg"
    /\ queue = <<>>
    /\ visited_nodes = {}
    /\ ordered_edges = <<>>
    /\ current_order = 0
    /\ run = 1
    /\ prev_orders = <<>>
    /\ \E n \in 0..MaxLines : root \in TreesOf(n)
    /\ reversed_markers = {}
    /\ calls = 0
    /\ history = <<>>

NextAnim == Process \/ ProcessWithTheme \/ Reload

\* An SVGAnimator on every tree of the model, processed up to MaxCalls times.
SpecAnim == InitAnim /\ [][NextAnim]_vars

(***************************************************************************)
(* SemanticInjector.inject_metadata, and the pipeline from the graph text  *)
(* to the animated tree: order computation, injection, then               *)
(* process / process_with_theme on the injected tree.                      *)
(***************************************************************************)
\* str(semantics.order)
StrOf(n) == CASE n = 0 -> "0" [] n = 1 -> "1" [] n = 2 -> "2" [] n = 3 -> "3"

\* edge_paths: the paths that are not inside a marker, in document order.
EdgePaths(t) ==
    SelectSeq(FindAll(t, "path"), LAMBDA u : ~InMarker(t, IndexOf(t, u)))

\* _add_semantic_attributes
add_semantic_attributes(path_element, semantics, order) ==
    [path_element EXCEPT !.flow = semantics.direction,
                         !.source_node = semantics.source,
                         !.target_node = semantics.target,
                         !.edge_type = semantics.edge_type,
                         !.order = StrOf(order)]

\* inject_metadata on tree t with the edge records es and their orders.
inject_metadata(t, es, orders) ==
    LET edge_paths == EdgePaths(t)
    IN  [k \in DOMAIN t |->
            IF \E i \in DOMAIN edge_paths : edge_paths[i] = t[k].uid /\ i <= Len(es)
            THEN LET i == CHOOSE j \in DOMAIN edge_paths : edge_paths[j] = t[k].uid
                 IN  add_semantic_attributes(t[k], es[i], orders[i])
            ELSE t[k]]

\* injector.inject_metadata(svg_content); the result is handed to SVGAnimator.
InjectMetadata ==
    /\ pc = "done"
    /\ root' = inject_metadata(root, edges, ordered_edges)
    /\ pc' = "svg"
    /\ UNCHANGED <<text, edges, queue, visited_nodes, ordered_edges, current_order,
                   run, prev_orders>>
    /\ UNCHANGED <<reversed_markers, calls, history>>

MaxInjected == 2

\* The k-th line path of a rendered tree: markers at the start of the odd
\* ones, at the end of the even ones, and no semantic attribute.
RenderedLine(k) ==
    Line(LineD, "", IF k % 2 = 1 THEN <<Url(ExtensionStart), NoAttr>>
                    ELSE <<NoAttr, Url(ExtensionStart)>>, "")

\* <g id="flowchart-<name>"> with the rect of the node.
RectGroup(name) ==
    << [Element("g", 1) EXCEPT !.id = <<"flowchart-", name>>], Element("rect", 2) >>

\* The trees inject_metadata is given: a marker in a definitions container,
\* possibly a node group before the line paths, a marker in a node group, or
\* the groups of two nodes.
RenderedTrees ==
    {FromString(<<Element("svg", 0)>> \o sc \o [k \in 1..n |-> RenderedLine(k)]) :
        sc \in { <<Element("defs", 1)>> \o MarkerWithTip(ExtensionStart, 2),
                 <<Element("defs", 1)>> \o MarkerWithTip(ExtensionStart, 2) \o NodeGroup,
                 MarkerInNodeGroup,
                 <<Element("defs", 1)>> \o MarkerWithTip(ExtensionStart, 2)
                     \o RectGroup("A-0") \o RectGroup("B-1") },
        n \in 0..MaxInjected}

InitInject ==
    /\ text = <<>>
    /\ \E n \in 0..MaxInjected : edges \in EdgeListsOf(n)
    /\ pc = "seed"
    /\ queue = <<>>
    /\ visited_nodes = {}
    /\ ordered_edges = <<>>
    /\ current_order = 0
    /\ run = 1
    /\ prev_orders = <<>>
    /\ root \in RenderedTrees
    /\ reversed_markers = {}
    /\ calls = 0
    /\ history = <<>>

NextInject == NextOrder \/ InjectMetadata \/ Process \/ ProcessWithTheme

SpecInject == InitInject /\ [][NextInject]_vars

(***************************************************************************)
(* Claims about direction reconciliation and marker mirroring.  They       *)
(* compare the tree handed to the latest call with the tree it produced.   *)
(***************************************************************************)
El(t, u) == t[IndexOf(t, u)]

\* The tree handed to the latest call.
Before == history[calls]

LineCurves(t) == {LinePaths(t)[k] : k \in DOMAIN LinePaths(t)}

IsSet(v) == v \notin {NoAttr, NONE}

\* The marker placement of the curve contradicts its semantic direction.
ReversalRequired(e) ==
    \/ e.flow \in {"", "forward"} /\ IsSet(e.marker_start) /\ ~IsSet(e.marker_end)
    \/ e.flow = "backward" /\ IsSet(e.marker_end) /\ ~IsSet(e.marker_start)

Measurable(e) == e.d.kind = "path"

\* The marker placement a curve ends up with: the custom properties of its
\* latest style block if the call wrote one, else its live attributes.
PlacedStart(b, a) ==
    IF Len(a.style) > Len(b.style) THEN a.style[Len(a.style)].marker_start
    ELSE MarkerOrNone(a.marker_start)

PlacedEnd(b, a) ==
    IF Len(a.style) > Len(b.style) THEN a.style[Len(a.style)].marker_end
    ELSE MarkerOrNone(a.marker_end)

Mirrored(v) == IF IsSet(v) THEN Url(MarkerIdOf(v) \o <<"_reversed">>) ELSE NONE

ReversedAndSwapped(b, a) ==
    /\ a.d = PathD(Reverse(b.d.pts))
    /\ PlacedStart(b, a) \in {MarkerOrNone(b.marker_end), Mirrored(b.marker_end)}
    /\ PlacedEnd(b, a) \in {MarkerOrNone(b.marker_start), Mirrored(b.marker_start)}

\* The ids of the markers the latest call added to the tree.
SynthesizedMarkers ==
    {root[i].id : i \in {j \in DOMAIN root :
                            /\ root[j].tag = "marker"
                            /\ \A k \in DOMAIN Before : Before[k].uid # root[j].uid}}

\* The mirrored ids curve b asks for when it is reversed.
MirrorsOf(b) ==
    {MarkerIdOf(v) \o <<"_reversed">> : v \in {w \in {b.marker_start, b.marker_end} : IsSet(w)}}

\* C8 as stated: a line-edge curve is reversed and its markers are swapped
\* if and only if its direction is forward or absent with a marker at the
\* start only, or backward with a marker at the end only; in every other
\* case its d is unchanged and no mirrored marker is synthesized for it.
C8_ReversedIffPlacementContradicts ==
    calls >= 1 =>
        /\ \A u \in LineCurves(Before) :
               IF ReversalRequired(El(Before, u))
               THEN ReversedAndSwapped(El(Before, u), El(root, u))
               ELSE El(root, u).d = El(Before, u).d
        /\ \A m \in SynthesizedMarkers :
               \E u \in LineCurves(Before) :
                   ReversalRequired(El(Before, u)) /\ m \in MirrorsOf(El(Before, u))

\* C8 amended: a line-edge curve whose d is present and measurable is
\* reversed and its markers are swapped if and only if its direction is
\* forward or absent with a marker at the start only, or backward with a
\* marker at the end only; in every other case, a missing or unmeasurable
\* d included, d is unchanged and no mirrored marker is synthesized for it.
C8_MeasurableReversedIffPlacementContradicts ==
    calls >= 1 =>
        /\ \A u \in LineCurves(Before) :
               IF Measurable(El(Before, u)) /\ ReversalRequired(El(Before, u))
               THEN ReversedAndSwapped(El(Before, u), El(root, u))
               ELSE El(root, u).d = El(Before, u).d
        /\ \A m \in SynthesizedMarkers :
               \E u \in LineCurves(Before) :
                   /\ Measurable(El(Before, u))
                   /\ ReversalRequired(El(Before, u))
                   /\ m \in MirrorsOf(El(Before, u))

\* A themed call has reversed a backward curve with a marker at its end
\* only, and has mirrored that marker.
C8_Witness ==
    /\ calls >= 1
    /\ \E u \in LineCurves(Before) :
           /\ El(Before, u).flow = "backward"
           /\ ReversalRequired(El(Before, u))
           /\ El(root, u).d # El(Before, u).d
           /\ El(root, u).class = "anim-edge clean-edge"
    /\ SynthesizedMarkers # {}

\* C9: reversal is idempotent.  After a call the marker placement of every
\* measurable line-edge curve, in its live attributes and in the placement
\* the call stored, is consistent with its direction, and no call after the
\* first, on the same transformer or on a new one constructed on the
\* output, changes the d of any line-edge curve.
C9_ReversalIdempotent ==
    /\ calls >= 1 =>
           \A u \in LineCurves(root) :
               Measurable(El(root, u)) =>
                   /\ ~ReversalRequired(El(root, u))
                   /\ ~ReversalRequired(
                          [El(root, u) EXCEPT
                              !.marker_start = PlacedStart(El(Before, u), El(root, u)),
                              !.marker_end = PlacedEnd(El(Before, u), El(root, u))])
    /\ calls >= 2 =>
           \A u \in LineCurves(Before) : El(root, u).d = El(Before, u).d

\* A curve was reversed by the first call and processed again by a second.
C9_Witness ==
    /\ calls = 2
    /\ \E u \in LineCurves(history[1]) :
           /\ El(history[2], u).d # El(history[1], u).d
           /\ Len(El(root, u).style) = 2

\* C10: when a measurable line-edge curve whose marker-start references a
\* marker X of a definitions container needs reversal, the output holds a
\* marker X_reversed that is a sibling of X, and the curve's marker-end
\* after the swap references X_reversed.
C10_MirroredMarkerIsSibling ==
    calls >= 1 =>
        \A u \in LineCurves(Before) :
            LET b == El(Before, u)
                X == MarkerIdOf(b.marker_start)
            IN  (/\ Measurable(b)
                 /\ ReversalRequired(b)
                 /\ IsSet(b.marker_start)
                 /\ FindMarkerInDefs(Before, X) # 0)
                => /\ \E i \in DOMAIN root :
                          /\ root[i].tag = "marker"
                          /\ root[i].id = X \o <<"_reversed">>
                          /\ Parent(root, i) = Parent(root, FindMarkerInDefs(root, X))
                   /\ PlacedEnd(b, El(root, u)) = Url(X \o <<"_reversed">>)

\* The markers of tree t that carry the id m.
MarkersWithId(t, m) == {i \in DOMAIN t : t[i].tag = "marker" /\ t[i].id = m}

\* The marker ids the measurable curves of t that need reversal ask to mirror
\* and that a definitions container of t defines.
MirrorRequests(t) ==
    {X \in {MarkerIdOf(v) : v \in {w \in UNION {{El(t, u).marker_start, El(t, u).marker_end} :
                                            u \in {c \in LineCurves(t) :
                                                      /\ Measurable(El(t, c))
                                                      /\ ReversalRequired(El(t, c))}} :
                                  IsSet(w)}} :
        FindMarkerInDefs(t, X) # 0}

\* C11: mirroring is memoized.  A transformer starts with an empty memo; the
\* tree never holds two definitions X_reversed, whatever the number of
\* curves asking for the mirror of X and whatever the number of calls; every
\* id in the memo has exactly one definition, and every mirror a call was
\* asked for has exactly one definition.
C11_OneMirroredDefinitionPerId ==
    /\ calls = 0 => reversed_markers = {}
    /\ \A i \in DOMAIN root :
           root[i].tag = "marker" => Cardinality(MarkersWithId(root, root[i].id)) = 1
    /\ \A m \in reversed_markers : Cardinality(MarkersWithId(root, m)) = 1
    /\ calls >= 1 =>
           \A X \in MirrorRequests(Before) :
               Cardinality(MarkersWithId(root, X \o <<"_reversed">>)) = 1

\* Two curves of one tree asked for the mirror of the same marker.
C11_Witness ==
    /\ calls >= 1
    /\ \E u, v \in LineCurves(Before) :
           /\ u # v
           /\ Measurable(El(Before, u)) /\ ReversalRequired(El(Before, u))
           /\ Measurable(El(Before, v)) /\ ReversalRequired(El(Before, v))
           /\ MirrorsOf(El(Before, u)) = MirrorsOf(El(Before, v))
           /\ \E m \in MirrorsOf(El(Before, u)) : Cardinality(MarkersWithId(root, m)) = 1

(***************************************************************************)
(* Claims about skipped and failing elements.                              *)
(***************************************************************************)
\* The curves (path elements) of tree t.
Curves(t) == {FindAll(t, "path")[k] : k \in DOMAIN FindAll(t, "path")}

TipCurves(t) == {ArrowTipPaths(t)[k] : k \in DOMAIN ArrowTipPaths(t)}

\* The configurations a call can have been made with, and the memo it can
\* have started from: empty, or the mirrors the transformer made before.
Configs == Themes \cup {NoThemeConfig(color) : color \in Colors}

Memos(t) ==
    {{}, {t[i].id : i \in {j \in DOMAIN t : t[j].tag = "marker"
                                             /\ t[j].id[Len(t[j].id)] = "_reversed"}}}

\* Tree t with a measurable d given to the curve u.
WithD(t, u) == [t EXCEPT ![IndexOf(t, u)].d = LineD]

\* The latest call treated every curve other than u as it would have if u
\* had had a measurable d.
OthersAsOtherwise(u) ==
    \E cfg \in Configs, memo \in Memos(Before) :
        /\ Animate(Before, memo, cfg).tree = root
        /\ \A v \in Curves(Before) \ {u} :
               El(Animate(WithD(Before, u), memo, cfg).tree, v) = El(root, v)

\* C12 as stated: a curve without d is left without animation class or
\* style by a call, and every other curve is processed as it would be
\* otherwise.
C12_CurveWithoutDSkipped ==
    calls >= 1 =>
        \A u \in Curves(Before) :
            El(Before, u).d.kind = "absent" =>
                /\ El(root, u).class = El(Before, u).class
                /\ El(root, u).style = El(Before, u).style
                /\ OthersAsOtherwise(u)

\* C12 amended: a line-edge or arrowhead-tip curve without d is left
\* entirely unchanged by a call, and every other curve is processed as it
\* would be otherwise (a node-shape curve without d still gets its node
\* class and delay from process_with_theme).
C12_EdgeCurveWithoutDSkipped ==
    calls >= 1 =>
        \A u \in LineCurves(Before) \cup TipCurves(Before) :
            El(Before, u).d.kind = "absent" =>
                /\ El(root, u) = El(Before, u)
                /\ OthersAsOtherwise(u)

\* A line-edge curve without d was skipped by a call that animated another
\* line-edge curve of the same tree.
C12_Witness ==
    /\ calls >= 1
    /\ \E u, v \in LineCurves(Before) :
           /\ El(Before, u).d.kind = "absent"
           /\ El(root, u).class = ""
           /\ Len(El(root, v).style) > Len(El(Before, v).style)

\* C13: a line-edge or arrowhead-tip curve whose d cannot be measured is
\* left completely unmodified by a call, the call completes, and every other
\* curve is processed as it would be if that d were measurable.
C13_MalformedCurveUnmodified ==
    calls >= 1 =>
        \A u \in LineCurves(Before) \cup TipCurves(Before) :
            El(Before, u).d.kind = "malformed" =>
                /\ El(root, u) = El(Before, u)
                /\ OthersAsOtherwise(u)
                /\ \A v \in TipCurves(Before) :
                       Measurable(El(Before, v)) =>
                           Len(El(root, v).style) = Len(El(Before, v).style) + 1

\* A call left a malformed line-edge curve alone and animated another
\* line-edge curve and an arrowhead tip of the same tree.
C13_Witness ==
    /\ calls >= 1
    /\ \E u, v \in LineCurves(Before) :
           /\ El(Before, u).d.kind = "malformed"
           /\ El(root, u) = El(Before, u)
           /\ Len(El(root, v).style) > Len(El(Before, v).style)
    /\ \E w \in TipCurves(Before) : Len(El(root, w).style) > Len(El(Before, w).style)

\* The marker values element e carries: live attributes and stored
\* custom properties.
MarkerValues(e) ==
    {e.marker_start, e.marker_end}
    \cup {e.style[k].marker_start : k \in DOMAIN e.style}
    \cup {e.style[k].marker_end : k \in DOMAIN e.style}

IsMirrorReference(v) ==
    IsSet(v) /\ Head(v) = "url" /\ v[Len(v)] = "_reversed"

\* C14: when a curve needing reversal references a marker id that no
\* definitions container defines, no definition is synthesized and the
\* curve keeps referencing the original id: no marker attribute and no
\* stored marker property of a curve points to a _reversed id that the tree
\* does not define.
C14_NoDanglingMirrorReference ==
    calls >= 1 =>
        \A u \in LineCurves(Before) :
            LET b == El(Before, u)
            IN  (/\ Measurable(b)
                 /\ ReversalRequired(b)
                 /\ \A m \in MirrorsOf(b) : MarkersWithId(Before, m) = {}
                 /\ \A v \in {b.marker_start, b.marker_end} :
                        IsSet(v) => FindMarkerInDefs(Before, MarkerIdOf(v)) = 0)
                => /\ SynthesizedMarkers = {}
                   /\ \A v \in MarkerValues(El(root, u)) :
                          IsMirrorReference(v) => MarkersWithId(root, MarkerIdOf(v)) # {}
                   /\ PlacedEnd(b, El(root, u)) = MarkerOrNone(b.marker_start)
                   /\ PlacedStart(b, El(root, u)) = MarkerOrNone(b.marker_end)

(***************************************************************************)
(* Claims about the delays and classes a call assigns.                     *)
(***************************************************************************)
\* The element objects the latest call gave an animation delay.
Delayed(S) == {u \in S : Len(El(root, u).style) > Len(El(Before, u).style)}

\* The animation delay the latest call gave element u.
DelayOf(u) == El(root, u).style[Len(El(root, u).style)].delay

\* Arrowhead-tip curves and the non-curve elements of markers.
TipElements(t) == TipCurves(t) \cup {MarkerElements(t)[k] : k \in DOMAIN MarkerElements(t)}

\* C15: in every processed tree the delay of every arrowhead-tip curve and
\* of every non-curve tip element is at least the delay of every line-edge
\* curve, whether that comes from data-animation-order or from the position.
C15_TipsNotBeforeLines ==
    calls >= 1 =>
        \A u \in Delayed(LineCurves(Before)) :
            \A w \in Delayed(TipElements(Before)) : DelayOf(w) >= DelayOf(u)

\* The delays stored in the style of element e.
Delays(e) == [k \in DOMAIN e.style |-> e.style[k].delay]

\* The preset-like configuration with the colour and stagger of process.
PresetLike(color) == Theme(color, "neon", "glass", NoThemeConfig(color).stagger)

\* C16: process is equivalent to process_with_theme with a preset of the
\* same colour and stagger: whenever the latest call was process, the themed
\* call on the same tree gives every element the class and the delays that
\* process gave it, node-shape elements included.
C16_ProcessEquivalentToPreset ==
    calls >= 1 =>
        \A color \in Colors, memo \in Memos(Before) :
            Animate(Before, memo, NoThemeConfig(color)).tree = root =>
                LET themed == Animate(Before, memo, PresetLike(color)).tree
                IN  /\ Len(themed) = Len(root)
                    /\ \A i \in DOMAIN root :
                           /\ themed[i].class = root[i].class
                           /\ Delays(themed[i]) = Delays(root[i])

\* The edge class the claim names for a configuration.
ExpectedEdgeClass(cfg) ==
    IF ~cfg.themed THEN "anim-edge neon-glow"
    ELSE CASE cfg.edge_style = "neon" -> "anim-edge neon-glow"
           [] cfg.edge_style = "hand-drawn" -> "anim-edge hand-drawn"
           [] cfg.edge_style = "clean" -> "anim-edge clean-edge"

\* The latest call animated curve u as an edge of configuration cfg.
AnimatedAsEdge(u, cfg) ==
    /\ El(root, u).class = ExpectedEdgeClass(cfg)
    /\ El(root, u).stroke = cfg.color
    /\ El(root, u).fill = "none"
    /\ Len(El(root, u).style) = Len(El(Before, u).style) + 1
    /\ El(root, u).style[Len(El(root, u).style)].length >= 0
    /\ El(root, u).style[Len(El(root, u).style)].delay >= 0

PositionIn(seq, u) == (CHOOSE k \in DOMAIN seq : seq[k] = u) - 1

\* The integer a data-animation-order attribute denotes.
OrderValue(str) ==
    CASE str = "0" -> 0 [] str = "1" -> 1 [] str = "2" -> 2 [] str = "3" -> 3

\* The stagger of a configuration, in hundredths of a second: 0.3 without a
\* theme, else the stagger_delay of the preset with that colour.
StaggerOf(cfg) ==
    IF ~cfg.themed THEN 30
    ELSE CASE cfg.color = "#00ff99" -> 30
           [] cfg.color = "#2563eb" -> 20
           [] cfg.color = "#374151" -> 40

DelayMultiplier(u) ==
    IF El(Before, u).order # "" THEN OrderValue(El(Before, u).order)
    ELSE PositionIn(LinePaths(Before), u)

\* C21: the delay a call writes to the style of a line-edge curve is
\* multiplier x stagger, where the multiplier is the integer value of
\* data-animation-order when present and else the position of the curve among
\* the line-edge curves in document order, and the stagger is the theme's
\* stagger_delay or 0.3 without a theme.
C21_DelayIsMultiplierTimesStagger ==
    calls >= 1 =>
        \A cfg \in Configs, memo \in Memos(Before) :
            Animate(Before, memo, cfg).tree = root =>
                \A u \in Delayed(LineCurves(Before)) :
                    DelayOf(u) = DelayMultiplier(u) * StaggerOf(cfg)

\* The corporate preset delayed a curve with data-animation-order 3 by 0.6 s
\* and the curve after it, which has no order, by 0.2 s.
C21_Witness ==
    /\ calls >= 1
    /\ \E u, v \in Delayed(LineCurves(Before)) :
           /\ El(Before, u).order = "3"
           /\ DelayOf(u) = 60
           /\ El(Before, v).order = ""
           /\ PositionIn(LinePaths(Before), v) = 1
           /\ DelayOf(v) = 20

\* The --marker-start / --marker-end properties the latest call stored in
\* the style of curve u.
StoredStart(u) == El(root, u).style[Len(El(root, u).style)].marker_start

StoredEnd(u) == El(root, u).style[Len(El(root, u).style)].marker_end

\* Curve u carries no live marker attribute referencing a marker definition.
NoLiveMarker(u) == ~IsSet(El(root, u).marker_start) /\ ~IsSet(El(root, u).marker_end)

\* C22 as stated: for every processed line-edge curve, reversed or not,
\* --marker-start and --marker-end hold the marker-start and marker-end the
\* curve had before reversal, and the curve is left without a live marker
\* attribute that references a marker definition.
C22_StoredMarkersArePreReversal ==
    calls >= 1 =>
        \A u \in Delayed(LineCurves(Before)) :
            /\ StoredStart(u) = MarkerOrNone(El(Before, u).marker_start)
            /\ StoredEnd(u) = MarkerOrNone(El(Before, u).marker_end)
            /\ NoLiveMarker(u)

\* C22 amended: for a processed line-edge curve that was not reversed,
\* --marker-start and --marker-end hold its marker-start and marker-end; for
\* one that was reversed they hold the values after reversal, that is
\* --marker-start the X_reversed reference made from the original marker-end
\* and --marker-end the one made from the original marker-start ('none'
\* staying 'none'); in both cases the curve is left without a live marker
\* attribute that references a marker definition.
C22_StoredMarkersArePostReversal ==
    calls >= 1 =>
        \A u \in Delayed(LineCurves(Before)) :
            LET b == El(Before, u)
            IN  /\ IF ReversalRequired(b)
                   THEN /\ StoredStart(u) = Mirrored(b.marker_end)
                        /\ StoredEnd(u) = Mirrored(b.marker_start)
                   ELSE /\ StoredStart(u) = MarkerOrNone(b.marker_start)
                        /\ StoredEnd(u) = MarkerOrNone(b.marker_end)
                /\ NoLiveMarker(u)

\* A call reversed a curve with a marker at its start only and stored the
\* mirrored reference as --marker-end, and processed a curve with markers at
\* both ends without reversing it.
C22_Witness ==
    /\ calls >= 1
    /\ \E u \in Delayed(LineCurves(Before)) :
           /\ ReversalRequired(El(Before, u))
           /\ El(Before, u).marker_start = Url(ExtensionStart)
           /\ StoredEnd(u) = Url(ExtensionStart \o <<"_reversed">>)
           /\ StoredStart(u) = NONE
           /\ El(root, u).marker_start = NONE
           /\ El(root, u).marker_end = NoAttr
    /\ \E h \in DOMAIN history :
           \E v \in LineCurves(history[h]) :
               /\ IsSet(El(history[h], v).marker_start)
               /\ IsSet(El(history[h], v).marker_end)

\* The static node class of a theme.
StaticNodeClass(cfg) ==
    CASE cfg.node_style = "glass" -> "glass-node"
      [] cfg.node_style = "outlined" -> "outlined-node"
      [] cfg.node_style = "solid" -> "solid-node"

\* The polygons and the node-shape curves of tree t that carry a transform.
TransformedShapes(t) ==
    {t[i].uid : i \in {j \in DOMAIN t :
                          /\ t[j].transform # ""
                          /\ \/ t[j].tag = "polygon"
                             \/ t[j].tag = "path" /\ ~InMarker(t, j) /\ is_node_shape_path(t, j)}}

\* C23: process_with_theme adds no animation-delay to a polygon or to a
\* node-shape curve that carries a transform, and gives it the static node
\* class of the theme, without anim-node.
C23_TransformedShapesNotAnimated ==
    calls >= 1 =>
        \A cfg \in Themes, memo \in Memos(Before) :
            Animate(Before, memo, cfg).tree = root =>
                \A u \in TransformedShapes(Before) :
                    /\ El(root, u).style = El(Before, u).style
                    /\ El(root, u).class = StaticNodeClass(cfg)

EdgeClasses == {"anim-edge neon-glow", "anim-edge hand-drawn", "anim-edge clean-edge"}

NodeClasses ==
    {"glass-node", "outlined-node", "solid-node",
     "anim-node glass-node", "anim-node outlined-node", "anim-node solid-node"}

ShapeTags == {"path", "rect", "circle", "ellipse", "polygon"}

\* Element i of the tree lies in a group whose id starts with 'flowchart-'.
InNodeGroup(t, i) ==
    \E j \in DOMAIN t :
        /\ t[j].tag = "g"
        /\ t[j].id # NoAttr
        /\ Head(t[j].id) = "flowchart-"
        /\ IsDescendant(t, i, j)

\* C24: an element nested inside a marker definition that has received a
\* class carries an edge class and not a node class, also when the marker
\* lies in a 'flowchart-' node group; and the class of an element is never
\* an edge class and a node class at once.
C24_MarkerContentNeverNodeClass ==
    \A i \in DOMAIN root :
        /\ (InMarker(root, i) /\ root[i].tag \in ShapeTags /\ root[i].class # "")
               => (root[i].class \in EdgeClasses /\ root[i].class \notin NodeClasses)
        /\ root[i].class # "" =>
               ((root[i].class \in EdgeClasses) # (root[i].class \in NodeClasses))

\* A themed call classed the tip path and the rect of a marker lying in a
\* node group as edges and the rect of the group as a node.
C24_Witness ==
    /\ calls >= 1
    /\ \E i, j, k \in DOMAIN root :
           /\ InMarker(root, i) /\ InNodeGroup(root, i)
           /\ root[i].tag = "path" /\ root[i].class \in EdgeClasses
           /\ InMarker(root, j) /\ InNodeGroup(root, j)
           /\ root[j].tag = "rect" /\ root[j].class \in EdgeClasses
           /\ ~InMarker(root, k) /\ InNodeGroup(root, k)
           /\ root[k].tag = "rect" /\ root[k].class \in NodeClasses

\* The node a group with id 'flowchart-<name>-<k>' draws.
NodeNameOf(id) ==
    CASE id[2] = "A-0" -> Node(1) [] id[2] = "B-1" -> Node(2)
      [] id[2] = "C-2" -> Node(3) [] id[2] = "D-3" -> Node(4)

\* The node-shape elements of tree t: shapes in a node group, outside markers.
NodeShapes(t) ==
    {t[i].uid : i \in {j \in DOMAIN t :
                          t[j].tag \in ShapeTags /\ InNodeGroup(t, j) /\ ~InMarker(t, j)}}

\* Line-edge curve e of tree t starts or ends at the node that shape n draws.
Attached(t, e, n) ==
    \E g \in DOMAIN t :
        /\ t[g].tag = "g"
        /\ t[g].id # NoAttr
        /\ Head(t[g].id) = "flowchart-"
        /\ IsDescendant(t, IndexOf(t, n), g)
        /\ NodeNameOf(t[g].id) \in {El(t, e).source_node, El(t, e).target_node}

\* C26: the delay a call gives a node-shape element does not exceed the
\* delay it gives any line-edge curve attached to that node.
C26_NodesNotAfterTheirEdges ==
    calls >= 1 =>
        \A n \in Delayed(NodeShapes(Before)) :
            \A e \in Delayed(LineCurves(Before)) :
                Attached(Before, e, n) => DelayOf(n) <= DelayOf(e)

\* The id denotes an arrow-style or extension-style tip.
IsTipId(marker_id) ==
    marker_id # <<>> /\ Head(marker_id) \in {"arrowhead", "extensionStart", "extensionEnd"}

\* The points of d mirrored at x = width / 2.
FlippedAt(d, width) ==
    [kind |-> "path", pts |-> [k \in DOMAIN d.pts |-> <<width - d.pts[k][1], d.pts[k][2]>>]]

\* The indices of the markers the latest call added to the tree.
SynthesizedAt ==
    {j \in DOMAIN root : /\ root[j].tag = "marker"
                         /\ \A k \in DOMAIN Before : Before[k].uid # root[j].uid}

\* C27: in a mirrored marker synthesized from a marker whose id denotes an
\* arrow-style or extension-style tip, every point x,y of every curve is
\* width - x,y with width the reference-point width of that marker, and the
\* curves of the original marker keep their d.
C27_MirroredTipFlippedAtOwnWidth ==
    calls >= 1 =>
        \A j \in SynthesizedAt :
            LET X == SubSeq(root[j].id, 1, Len(root[j].id) - 1)
                m == FindMarkerInDefs(Before, X)
            IN  IsTipId(X) =>
                    \A k \in 1..(SubtreeEnd(Before, m) - m) :
                        (Before[m + k].tag = "path" /\ Before[m + k].d.kind = "path") =>
                            /\ root[j + k].d = FlippedAt(Before[m + k].d, Before[m].refX)
                            /\ El(root, Before[m + k].uid).d = Before[m + k].d

\* A step of the guarded block raises on curve b: its d cannot be measured,
\* or its data-animation-order is not an integer.
Raises(b) ==
    /\ b.d.kind # "absent"
    /\ (b.d.kind = "malformed" \/ b.order \notin {"", "0", "1", "2", "3"})

\* C28: processing a line-edge curve is all-or-nothing.  When a step of the
\* guarded block raises on it, its d, marker-start, marker-end, style and
\* class are as before the call, and every mirrored marker the call
\* synthesized was asked for by a curve on which no step raised.
C28_FailedCurveUntouched ==
    calls >= 1 =>
        \A u \in LineCurves(Before) :
            Raises(El(Before, u)) =>
                /\ El(root, u).d = El(Before, u).d
                /\ El(root, u).marker_start = El(Before, u).marker_start
                /\ El(root, u).marker_end = El(Before, u).marker_end
                /\ El(root, u).style = El(Before, u).style
                /\ El(root, u).class = El(Before, u).class
                /\ \A m \in MirrorsOf(El(Before, u)) \cap SynthesizedMarkers :
                       \E v \in LineCurves(Before) :
                           /\ ~Raises(El(Before, v))
                           /\ Measurable(El(Before, v))
                           /\ ReversalRequired(El(Before, v))
                           /\ m \in MirrorsOf(El(Before, v))

\* Curve e carries the five semantic attributes of the k-th edge record.
AnnotatedWith(e, k) ==
    /\ e.flow = edges[k].direction
    /\ e.source_node = edges[k].source
    /\ e.target_node = edges[k].target
    /\ e.edge_type = edges[k].edge_type
    /\ e.order \in {"0", "1", "2", "3"}
    /\ OrderValue(e.order) = ordered_edges[k]

Unannotated(e) ==
    /\ e.flow = "" /\ e.order = "" /\ e.edge_type = ""
    /\ e.source_node = NoAttr /\ e.target_node = NoAttr

\* C29: inject_metadata and the transformer agree on which curves are
\* edges.  Once metadata is injected, the k-th curve the transformer
\* classifies as a line-edge curve carries the five attributes of the k-th
\* edge record, and no curve inside a marker and no node-shape curve carries
\* a semantic attribute.
C29_RecordsAttachedToLineCurves ==
    pc = "svg" =>
        /\ \A k \in DOMAIN LinePaths(root) :
               IF k <= Len(edges)
               THEN AnnotatedWith(El(root, LinePaths(root)[k]), k)
               ELSE Unannotated(El(root, LinePaths(root)[k]))
        /\ \A i \in DOMAIN root :
               (root[i].tag = "path" /\ (InMarker(root, i) \/ is_node_shape_path(root, i)))
                   => Unannotated(root[i])

(***************************************************************************)
(* Claims about what a run leaves of the tree it is given.                 *)
(***************************************************************************)
\* The object that is the parent of element i of tree t (0 for the root).
ParentUid(t, i) == IF Parent(t, i) = 0 THEN 0 ELSE t[Parent(t, i)].uid

\* The names of the attributes element e carries.
AttributesOf(e) ==
    (IF e.id # NoAttr THEN {"id"} ELSE {})
    \cup (IF e.d.kind # "absent" THEN {"d"} ELSE {})
    \cup (IF e.flow # "" THEN {"data-flow-direction"} ELSE {})
    \cup (IF e.source_node # NoAttr THEN {"data-source-node"} ELSE {})
    \cup (IF e.target_node # NoAttr THEN {"data-target-node"} ELSE {})
    \cup (IF e.edge_type # "" THEN {"data-edge-type"} ELSE {})
    \cup (IF e.order # "" THEN {"data-animation-order"} ELSE {})
    \cup (IF e.marker_start # NoAttr THEN {"marker-start"} ELSE {})
    \cup (IF e.marker_end # NoAttr THEN {"marker-end"} ELSE {})
    \cup (IF e.style # <<>> THEN {"style"} ELSE {})
    \cup (IF e.class # "" THEN {"class"} ELSE {})
    \cup (IF e.stroke # "" THEN {"stroke"} ELSE {})
    \cup (IF e.fill # "" THEN {"fill"} ELSE {})
    \cup (IF e.transform # "" THEN {"transform"} ELSE {})

\* Element j of tree t is a marker with an id X_reversed, or lies in one.
InMirroredMarker(t, j) ==
    \E m \in DOMAIN t :
        /\ t[m].tag = "marker"
        /\ t[m].id # NoAttr
        /\ t[m].id[Len(t[m].id)] = "_reversed"
        /\ (m = j \/ IsDescendant(t, j, m))

\* Tree t2 keeps every element of t1 under the same parent, adds only a
\* style element as first child of the root and mirrored marker definitions,
\* and removes no attribute but marker-start and marker-end.
TreePreserved(t1, t2) ==
    /\ \A i \in DOMAIN t1 :
           \E j \in DOMAIN t2 :
               /\ t2[j].uid = t1[i].uid
               /\ t2[j].tag = t1[i].tag
               /\ ParentUid(t2, j) = ParentUid(t1, i)
               /\ (AttributesOf(t1[i]) \ AttributesOf(t2[j])) \subseteq {"marker-start", "marker-end"}
    /\ \A j \in DOMAIN t2 :
           (\A i \in DOMAIN t1 : t1[i].uid # t2[j].uid) =>
               \/ (j = 2 /\ t2[j].tag = "style" /\ t2[j].depth = 1)
               \/ InMirroredMarker(t2, j)

\* C25: inject_metadata, process and process_with_theme never delete or
\* re-parent an element: every step that changes the tree keeps every
\* element under its parent, adds only the style element (as first child of
\* the root) and mirrored marker definitions, and removes no attribute other
\* than marker-start and marker-end.
C25_TreeOnlyGrows == [][root' # root => TreePreserved(root, root')]_vars

\* Metadata was injected, and a call then inserted the style element,
\* synthesized a mirrored marker and removed a marker-end attribute.
C25_Witness ==
    /\ calls >= 1
    /\ root[2].tag = "style"
    /\ SynthesizedMarkers # {}
    /\ \E u \in LineCurves(Before) :
           /\ El(Before, u).flow # ""
           /\ El(Before, u).edge_type # ""
           /\ "marker-end" \in AttributesOf(El(Before, u))
           /\ "marker-end" \notin AttributesOf(El(root, u))

(***************************************************************************)
(* Claims about _parse_edge_semantics.  A statement is a non-empty         *)
(* stripped part, split on ';', of a line that is not a comment line.      *)
(***************************************************************************)
RECURSIVE StatementsOfLines(_)
StatementsOfLines(lines) ==
    IF lines = <<>> THEN <<>>
    ELSE LET line == Strip(Head(lines))
         IN  (IF line = <<>> \/ line[1] = "%" THEN <<>>
              ELSE StripParts(Split(line, ";")))
             \o StatementsOfLines(Tail(lines))

StatementsOf(t) == StatementsOfLines(Split(t, "\n"))

MatchesSomePattern(st) == \E k \in DOMAIN patterns : Search(patterns[k].lit, st) # NoMatch

FirstMatchingRow(st) ==
    Min({k \in DOMAIN patterns : Search(patterns[k].lit, st) # NoMatch})

MatchingStatements(t) == SelectSeq(StatementsOf(t), MatchesSomePattern)

\* The statement is exactly  X lit Y  (blanks allowed around lit).
IsPlainForm(st, lit) ==
    /\ st # <<>>
    /\ MatchAt(st, 1, lit)
    /\ LET m == SkipSpace(st, SkipSpace(st, WordRunEnd(st, 1) + 1) + Len(lit))
       IN  WordRunEnd(st, m) = Len(st)

ArrowLit == <<"-", "-", ">">>
ExtensionLit == <<"<", "|", "-", "-">>

\* C4: the number of records equals the number of statements that match at
\* least one pattern; the n-th record is the one the first matching row of
\* the n-th matching statement yields; other statements yield nothing.
C4_OneRecordPerMatchingStatement ==
    pc = "seed" =>
        LET M == MatchingStatements(text)
        IN  /\ Len(edges) = Len(M)
            /\ \A n \in DOMAIN M :
                   LET row == patterns[FirstMatchingRow(M[n])]
                   IN  edges[n] = MatchRecord(row, Search(row.lit, M[n]))

\* C4 witness: a parsed text of two statements of which only one is an edge,
\* and that one matches two rows of the table.
C4_Witness ==
    /\ pc = "seed"
    /\ Len(StatementsOf(text)) = 2
    /\ Len(edges) = 1
    /\ \E st \in {MatchingStatements(text)[1]} :
           Cardinality({k \in DOMAIN patterns : Search(patterns[k].lit, st) # NoMatch}) = 2

\* C5: a statement  X --> Y  yields a record with source X, target Y,
\* direction forward and kind 'arrow'.
C5_ArrowStatementIsArrow ==
    pc = "seed" =>
        LET M == MatchingStatements(text)
        IN  \A n \in DOMAIN M :
                IsPlainForm(M[n], ArrowLit) =>
                    edges[n] = EdgeSemantics(Search(ArrowLit, M[n])[1],
                                             Search(ArrowLit, M[n])[2], "forward", "arrow")

\* C7: a statement  P <|-- C  yields exactly one record, with source C,
\* target P, kind 'extension' and direction forward; no record has direction
\* 'backward'.
C7_ExtensionSwapped ==
    pc = "seed" =>
        LET M == MatchingStatements(text)
        IN  /\ Len(edges) = Len(M)
            /\ \A n \in DOMAIN M :
                   IsPlainForm(M[n], ExtensionLit) =>
                       edges[n] = EdgeSemantics(Search(ExtensionLit, M[n])[2],
                                                Search(ExtensionLit, M[n])[1],
                                                "forward", "extension")
            /\ \A n \in DOMAIN edges : edges[n].direction # "backward"

\* C7 witness: the parsed statement  AB <|-- C  gave source C, target AB.
C7_Witness ==
    /\ pc = "seed"
    /\ \E n \in DOMAIN edges :
           /\ IsPlainForm(MatchingStatements(text)[n], ExtensionLit)
           /\ edges[n].source = <<"C">>
           /\ edges[n].target = <<"A", "B">>
           /\ edges[n].edge_type = "extension"

(***************************************************************************)
(* Graph notions used to state the claims about the order.                 *)
(***************************************************************************)
Succ(es, S) == {es[i].target : i \in {j \in DOMAIN es : es[j].source \in S}}

RECURSIVE Closure(_, _, _)
Closure(es, S, k) == IF k = 0 THEN S ELSE Closure(es, S \cup Succ(es, S), k - 1)

\* Nodes reachable from n along one or more edges.
Reachable(es, n) == Closure(es, Succ(es, {n}), Len(es))

Acyclic(es) == \A n \in all_nodes(es) : n \notin Reachable(es, n)

\* One simple path n1 -> n2 -> ... -> nk, one edge per statement.
IsSimpleChain(es) ==
    /\ es # <<>>
    /\ \A i, j \in DOMAIN es :
           i # j => es[i].source # es[j].source /\ es[i].target # es[j].target
    /\ Acyclic(es)
    /\ Cardinality({n \in all_nodes(es) : edge_targets(es, n) = {}}) = 1

\* In a simple chain: how many edges come before edge i along the chain.
RECURSIVE ChainIndex(_, _)
ChainIndex(es, i) ==
    IF edge_targets(es, es[i].source) = {} THEN 0
    ELSE 1 + ChainIndex(es, CHOOSE j \in edge_targets(es, es[i].source) : TRUE)

(***************************************************************************)
(* Claims about _calculate_animation_order.                                *)
(***************************************************************************)

\* C1: for every edge list of N >= 0 edges the orders returned are pairwise
\* distinct and form exactly the set 0..N-1; no edge is left without one.
C1_OrdersArePermutation ==
    pc = "done" =>
        /\ DOMAIN ordered_edges = DOMAIN edges
        /\ {ordered_edges[i] : i \in DOMAIN edges} = 0..(Len(edges) - 1)
        /\ \A i, j \in DOMAIN edges : ordered_edges[i] = ordered_edges[j] => i = j

\* C1 witness: a finished run on a list with a self-loop, two parallel edges
\* and an edge the traversal never reaches.
C1_Witness ==
    /\ pc = "done"
    /\ Len(edges) = MaxEdges
    /\ \E i \in DOMAIN edges : edges[i].source = edges[i].target
    /\ \E i, j \in DOMAIN edges :
           i # j /\ edges[i].source = edges[j].source /\ edges[i].target = edges[j].target
    /\ ordered_edges[1] = Len(edges) - 1

\* C2: on an acyclic graph, an edge entering node v is ordered before every
\* edge leaving v.
C2_TopologicalOrderRespected ==
    (pc = "done" /\ Acyclic(edges)) =>
        \A e, f \in DOMAIN edges :
            edges[e].target = edges[f].source => ordered_edges[e] < ordered_edges[f]

\* C3: two constructions of the extractor on the same text assign the same
\* order to every edge.
C3_OrderIsDeterministic ==
    (pc = "done" /\ run = 2) => ordered_edges = prev_orders

\* C6: for a simple chain n1 -> ... -> nk declared in any order, the edge
\* leaving n_i gets order i-1 (for "A --> B; B --> C": orders 0 and 1).
C6_ChainOrder ==
    (pc = "done" /\ IsSimpleChain(edges)) =>
        \A i \in DOMAIN edges : ordered_edges[i] = ChainIndex(edges, i)

\* C6 witness: a finished three-edge chain whose first declared edge is the
\* last of the chain.
C6_Witness ==
    /\ pc = "done"
    /\ IsSimpleChain(edges)
    /\ Len(edges) = 3
    /\ ChainIndex(edges, 1) = 2
    /\ ordered_edges[1] = 2

\* Number of edges entering node n.
InDegree(n) == Cardinality({i \in DOMAIN edges : edges[i].target = n})

GraphNodes == {edges[i].source : i \in DOMAIN edges} \cup {edges[i].target : i \in DOMAIN edges}

ZeroIncoming == {n \in GraphNodes : InDegree(n) = 0}

MinIncoming == {n \in GraphNodes : \A m \in GraphNodes : InDegree(n) <= InDegree(m)}

\* The nodes the claims call seed nodes.
SeedNodes == IF ZeroIncoming # {} THEN ZeroIncoming ELSE MinIncoming

\* The deque holds the start nodes: nothing has been visited yet.
Seeded == pc = "visit" /\ visited_nodes = {}

\* C18: the traversal is seeded with exactly the nodes without incoming
\* edges; only when there is none, with exactly the nodes of minimum
\* incoming count, and then every edge still gets a distinct order and the
\* orders are contiguous from 0.
C18_SeededWithZeroIncomingElseMinimum ==
    /\ Seeded =>
           /\ {queue[k] : k \in DOMAIN queue} = SeedNodes
           /\ \A j, k \in DOMAIN queue : queue[j] = queue[k] => j = k
           /\ (ZeroIncoming # {} => \A k \in DOMAIN queue : InDegree(queue[k]) = 0)
    /\ (pc = "done" /\ edges # <<>> /\ ZeroIncoming = {}) =>
           /\ {ordered_edges[i] : i \in DOMAIN edges} = 0..(Len(edges) - 1)
           /\ \A i, j \in DOMAIN edges : ordered_edges[i] = ordered_edges[j] => i = j

\* The two-node cycle "A --> B; B --> A" has been numbered.
C18_Witness ==
    /\ pc = "done"
    /\ Len(edges) = 2
    /\ edges[1].source = edges[2].target
    /\ edges[1].target = edges[2].source
    /\ edges[1].source # edges[1].target
    /\ ZeroIncoming = {}
    /\ {ordered_edges[1], ordered_edges[2]} = {0, 1}

\* The nodes the traversal reaches: the seed nodes and what is reachable
\* from them.
ReachedNodes == SeedNodes \cup UNION {Reachable(edges, n) : n \in SeedNodes}

\* Edge e extends what is already drawn: its source is a seed node or the
\* target of an edge of smaller order.
ExtendsDrawnPrefix(e) ==
    \/ edges[e].source \in SeedNodes
    \/ \E f \in DOMAIN edges :
           edges[f].target = edges[e].source /\ ordered_edges[f] < ordered_edges[e]

\* C19 as stated: for every graph and every edge e, the source of e is a
\* seed node or the target of an edge of smaller order.
C19_EveryEdgeExtendsDrawnPrefix ==
    pc = "done" => \A e \in DOMAIN edges : ExtendsDrawnPrefix(e)

\* C19 amended: every edge whose source the traversal reaches from a seed
\* node has as source a seed node or the target of an edge of smaller
\* order; the other edges are numbered after all of these, in declaration
\* order.
C19_ReachedEdgeExtendsDrawnPrefix ==
    pc = "done" =>
        \A e \in DOMAIN edges :
            IF edges[e].source \in ReachedNodes
            THEN ExtendsDrawnPrefix(e)
            ELSE \A f \in DOMAIN edges :
                     /\ edges[f].source \in ReachedNodes => ordered_edges[f] < ordered_edges[e]
                     /\ (edges[f].source \notin ReachedNodes /\ f < e)
                            => ordered_edges[f] < ordered_edges[e]

\* A finished run in which an edge from a non-seed node was numbered after
\* an edge entering that node, and in which another edge was never reached.
C19_Witness ==
    /\ pc = "done"
    /\ \E e, f \in DOMAIN edges :
           /\ edges[e].source \notin SeedNodes
           /\ edges[f].target = edges[e].source
           /\ ordered_edges[f] < ordered_edges[e]
    /\ \E e \in DOMAIN edges : edges[e].source \notin ReachedNodes

\* The edges leaving node n, and the next one declared after edge i.
Outgoing(n) == {i \in DOMAIN edges : edges[i].source = n}

IsNextOutgoing(i, j) ==
    /\ edges[i].source = edges[j].source
    /\ i < j
    /\ \A k \in Outgoing(edges[i].source) : ~(i < k /\ k < j)

\* Of two edges with the same source the one declared earlier has the
\* smaller order, and the outgoing edges of a visited node have consecutive
\* orders in declaration order.
SiblingsInDeclarationOrder ==
    /\ pc = "done" =>
           \A i, j \in DOMAIN edges :
               (edges[i].source = edges[j].source /\ i < j)
                   => ordered_edges[i] < ordered_edges[j]
    /\ pc \in {"visit", "done"} =>
           \A i, j \in DOMAIN edges :
               (edges[i].source \in visited_nodes /\ IsNextOutgoing(i, j))
                   => ordered_edges[j] = ordered_edges[i] + 1

\* A step visits at most one node, one not visited before, and never changes
\* an order already assigned.
VisitedAndNumberedOnce ==
    /\ visited_nodes' # visited_nodes =>
           \E n \in GraphNodes : n \notin visited_nodes /\ visited_nodes' = visited_nodes \cup {n}
    /\ \A i \in DOMAIN ordered_edges :
           ordered_edges[i] # None => ordered_edges'[i] = ordered_edges[i]

\* C20: two edges with the same source are ordered as declared; the
\* outgoing edges of a visited node get consecutive orders in declaration
\* order; no node is visited twice and no edge is numbered twice.
C20_OutgoingEdgesInDeclarationOrder ==
    [](SiblingsInDeclarationOrder) /\ [][VisitedAndNumberedOnce]_vars

\* A visited node has two outgoing edges with another edge declared between
\* them, and they got consecutive orders.
C20_Witness ==
    /\ pc = "done"
    /\ \E i, j \in DOMAIN edges :
           /\ IsNextOutgoing(i, j)
           /\ j > i + 1
           /\ edges[i].source \in visited_nodes
           /\ ordered_edges[i] > 0
           /\ ordered_edges[j] = ordered_edges[i] + 1

\* A step of the traversal loop: a node already visited is only popped; any
\* other node is expanded and marked visited; and the queue grows by no more
\* entries than edges are newly numbered.
ExpandsOnceEnqueuesWhenNumbering ==
    (pc = "visit" /\ queue # <<>>) =>
        /\ IF Head(queue) \in visited_nodes
           THEN /\ queue' = Tail(queue)
                /\ ordered_edges' = ordered_edges
                /\ visited_nodes' = visited_nodes
           ELSE visited_nodes' = visited_nodes \cup {Head(queue)}
        /\ Len(queue') - Len(Tail(queue)) <= current_order' - current_order

\* C30: the order computation terminates for every finite edge list, cyclic
\* graphs, self-loops and parallel edges included: each node is expanded at
\* most once, a target is enqueued only while an edge is newly numbered, and
\* the computation eventually returns.
C30_OrderComputationTerminates ==
    <>(pc = "done") /\ [][ExpandsOnceEnqueuesWhenNumbering]_vars

\* The computation returned on a graph in which every node has an incoming
\* edge and which has a self-loop and two parallel edges.
C30_Witness ==
    /\ pc = "done"
    /\ \A n \in GraphNodes : InDegree(n) > 0
    /\ \E i \in DOMAIN edges : edges[i].source = edges[i].target
    /\ \E i, j \in DOMAIN edges :
           /\ i < j
           /\ edges[i].source # edges[i].target
           /\ edges[i] = edges[j]
    /\ \A i \in DOMAIN edges : ordered_edges[i] # None

====
